---- MODULE Spec2Model ----
(***************************************************************************)
(* Semantic ticket classification (ticket_classifier.py) and the ticket   *)
(* lifecycle store (conversation_manager.py) with the application turn    *)
(* that feeds it (app.py).                                                 *)
(*                                                                         *)
(* Cosine similarities are integers in thousandths (250 is 0.25);         *)
(* confidences, the similarities rounded to two decimals, are integers in *)
(* hundredths (25 is 0.25).                                                *)
(***************************************************************************)
EXTENDS Integers, Sequences, FiniteSets, TLC

VARIABLES
    call,               \* last call made on the TicketClassifier: [fn, args.., ret]
    conversations,      \* rows of table conversations, in insertion order
    queries,            \* rows of table queries, in insertion order
    grievances,         \* rows of table grievances, in insertion order
    op,                 \* last call made on the ConversationManager, with its outcome
    session,            \* st.session_state of the one browser session
    turn,               \* position of the session inside the persistence block of a turn
    nops,               \* number of calls of the two inserts of the store made so far
    now,                \* the clock in seconds: CURRENT_TIMESTAMP and time.time()
    classifier,         \* the fields of the one TicketClassifier that its methods read
    threads,            \* per thread, its position inside classify_query and its locals
    returned,           \* the classify_query calls that have returned, in order of return
    last_called,        \* last_called[0] of the rate limiter around generate_summary
    summarizing,        \* per thread, its position inside a ComplaintSummarizer call
    entered,            \* the entries into the body of generate_summary, in order
    gemini,             \* the calls of model.generate_content made so far, in order
    page                \* st.session_state and widgets of one Grievance Dashboard session

vars == <<call, conversations, queries, grievances, op, session, turn, nops, now,
          classifier, threads, returned, last_called, summarizing, entered, gemini, page>>

sumVars == <<last_called, summarizing, entered, gemini, page>>

clsVars == <<call, classifier, threads, returned>>
storeVars == <<conversations, queries, grievances, op, session, turn, nops, now>>

(***************************************************************************)
(* Python values                                                           *)
(***************************************************************************)
\* dict.get(key, default)
Get(d, k, default) == IF k \in DOMAIN d THEN d[k] ELSE default

\* the dict d without key k
Without(d, k) == [x \in (DOMAIN d) \ {k} |-> d[x]]

\* the dict d with d[k] = v
With(d, k, v) == [x \in (DOMAIN d) \cup {k} |-> IF x = k THEN v ELSE d[x]]

Range(s) == {s[i] : i \in DOMAIN s}

\* round(x, 2) of a similarity in thousandths, as hundredths; a tie goes to
\* the even neighbour.
Round2(s) ==
    LET q == s \div 10
        r == s % 10
    IN  IF r < 5 THEN q
        ELSE IF r > 5 THEN q + 1
        ELSE IF q % 2 = 0 THEN q ELSE q + 1

(***************************************************************************)
(* Catalogs                                                                *)
(***************************************************************************)
\* the intents dict of _compute_intent_embeddings, in insertion order
IntentLabels ==
    << "BALANCE_QUERY", "NETWORK_ISSUE", "RECHARGE_REQUEST", "BILLING_COMPLAINT",
       "SUPPORT_REQUEST", "OFFER_INQUIRY", "PLAN_CHANGE", "TECHNICAL_SUPPORT" >>

QUERY_TYPES ==
    << [key |-> "BALANCE_CHECK", name |-> "Balance Check", department |-> "Customer Support"],
       [key |-> "PLAN_INQUIRY", name |-> "Plan Information", department |-> "Customer Support"],
       [key |-> "RECHARGE_INQUIRY", name |-> "Recharge Plans", department |-> "Sales"],
       [key |-> "OFFER_INQUIRY", name |-> "Offers & Promotions", department |-> "Sales"],
       [key |-> "VALIDITY_INQUIRY", name |-> "Validity Check", department |-> "Customer Support"],
       [key |-> "USAGE_INQUIRY", name |-> "Usage History", department |-> "Customer Support"],
       [key |-> "CUSTOMER_CARE_INQUIRY", name |-> "Contact Information", department |-> "Customer Support"],
       [key |-> "SERVICE_ACTIVATION", name |-> "Service Activation", department |-> "Technical Support"] >>

GRIEVANCE_TYPES ==
    << [key |-> "NETWORK_CONNECTIVITY", name |-> "Network Connectivity Issue", department |-> "Network Operations", severity |-> "HIGH"],
       [key |-> "SLOW_INTERNET", name |-> "Slow Internet Speed", department |-> "Network Operations", severity |-> "MEDIUM"],
       [key |-> "BILLING_DISPUTE", name |-> "Billing Complaint", department |-> "Billing Department", severity |-> "HIGH"],
       [key |-> "RECHARGE_FAILURE", name |-> "Recharge Failed", department |-> "Technical Support", severity |-> "HIGH"],
       [key |-> "CALL_DROPS", name |-> "Call Dropping", department |-> "Network Operations", severity |-> "MEDIUM"],
       [key |-> "DATA_NOT_WORKING", name |-> "Mobile Data Not Working", department |-> "Technical Support", severity |-> "HIGH"],
       [key |-> "SIM_ISSUE", name |-> "SIM Card Problem", department |-> "Technical Support", severity |-> "HIGH"],
       [key |-> "PORT_REQUEST_ISSUE", name |-> "Porting Problem", department |-> "Customer Support", severity |-> "MEDIUM"],
       [key |-> "SERVICE_DEACTIVATION", name |-> "Unwanted Service Deactivation", department |-> "Technical Support", severity |-> "MEDIUM"],
       [key |-> "POOR_CALL_QUALITY", name |-> "Voice Quality Issue", department |-> "Network Operations", severity |-> "MEDIUM"],
       [key |-> "APP_NOT_WORKING", name |-> "Mobile App Issue", department |-> "Technical Support", severity |-> "LOW"],
       [key |-> "UNWANTED_CHARGES", name |-> "Unauthorized Charges", department |-> "Billing Department", severity |-> "HIGH"] >>

\* self.type_embeddings without the vectors: the entries in insertion order,
\* query types first.  Entry i is compared with the query by TypeSims[i].
type_embeddings ==
    [i \in 1..Len(QUERY_TYPES) |->
        [category |-> "QUERY", type |-> QUERY_TYPES[i].key,
         name |-> QUERY_TYPES[i].name, department |-> QUERY_TYPES[i].department]]
    \o
    [i \in 1..Len(GRIEVANCE_TYPES) |->
        [category |-> "GRIEVANCE", type |-> GRIEVANCE_TYPES[i].key,
         name |-> GRIEVANCE_TYPES[i].name, department |-> GRIEVANCE_TYPES[i].department,
         severity |-> GRIEVANCE_TYPES[i].severity]]

(***************************************************************************)
(* TicketClassifier                                                        *)
(***************************************************************************)
\* threshold: float = 0.25, in thousandths
Threshold == 250

\* a sort that is not stable: an entry goes before the entries of equal
\* confidence
RECURSIVE SortByConfidenceUnstable(_)
SortByConfidenceUnstable(results) ==
    IF Len(results) <= 1 THEN results
    ELSE LET n == Len(results)
             sorted == SortByConfidenceUnstable(SubSeq(results, 1, n - 1))
             x == results[n]
             k == Cardinality({i \in 1..Len(sorted) : sorted[i].confidence > x.confidence})
         IN  SubSeq(sorted, 1, k) \o <<x>> \o SubSeq(sorted, k + 1, Len(sorted))

\* results.sort(key=confidence, reverse=True): a stable sort, so entries of
\* equal confidence keep the order in which they were appended.
RECURSIVE SortByConfidence(_)
SortByConfidence(results) ==
    IF Len(results) <= 1 THEN results
    ELSE LET n == Len(results)
             sorted == SortByConfidence(SubSeq(results, 1, n - 1))
             x == results[n]
             \* x goes after every entry whose confidence is >= its own
             k == Cardinality({i \in 1..Len(sorted) : sorted[i].confidence >= x.confidence})
         IN  SubSeq(sorted, 1, k) \o <<x>> \o SubSeq(sorted, k + 1, Len(sorted))

\* the threshold test written with > instead of >=
RECURSIVE CollectIntentsStrict(_, _)
CollectIntentsStrict(isims, n) ==
    IF n = 0 THEN << >>
    ELSE LET results == CollectIntentsStrict(isims, n - 1)
             similarity == isims[n]
         IN  IF similarity > Threshold
             THEN Append(results, [label |-> IntentLabels[n], confidence |-> Round2(similarity)])
             ELSE results

\* the loop over self.intent_embeddings.items(): intents[1..n] already visited
RECURSIVE CollectIntents(_, _)
CollectIntents(isims, n) ==
    IF n = 0 THEN << >>
    ELSE LET results == CollectIntents(isims, n - 1)
             similarity == isims[n]
         IN  IF similarity >= Threshold
             THEN Append(results, [label |-> IntentLabels[n], confidence |-> Round2(similarity)])
             ELSE results

\* isims[i] is the cosine similarity of the query and intent i
detect_intents(isims) == SortByConfidence(CollectIntents(isims, Len(IntentLabels)))

\* the loop over self.type_embeddings.items(): the pair <<best_match, best_score>>
\* after the first n entries; best_match 0 is None
RECURSIVE BestMatch(_, _)
BestMatch(tsims, n) ==
    IF n = 0 THEN <<0, 0>>
    ELSE LET best == BestMatch(tsims, n - 1)
             similarity == tsims[n]
         IN  IF similarity > best[2] THEN <<n, similarity>> ELSE best

\* a resolution that reports the department of record of the query types for
\* every type
determine_type_default_department(tsims) ==
    LET best == BestMatch(tsims, Len(type_embeddings))
        best_match == best[1]
        best_score == best[2]
    IN  IF best_match = 0
        THEN [raised |-> "TypeError"]
        ELSE [raised |-> "no",
              category |-> type_embeddings[best_match].category,
              type |-> type_embeddings[best_match].type,
              type_name |-> type_embeddings[best_match].name,
              department |-> "Customer Support",
              confidence |-> Round2(best_score)]

\* tsims[i] is the cosine similarity of the query and catalog entry i.
\* Subscripting best_match = None raises TypeError.
determine_type(tsims) ==
    LET best == BestMatch(tsims, Len(type_embeddings))
        best_match == best[1]
        best_score == best[2]
    IN  IF best_match = 0
        THEN [raised |-> "TypeError"]
        ELSE [raised |-> "no",
              category |-> type_embeddings[best_match].category,
              type |-> type_embeddings[best_match].type,
              type_name |-> type_embeddings[best_match].name,
              department |-> type_embeddings[best_match].department,
              confidence |-> Round2(best_score)]

routing_map ==
    [ NETWORK_ISSUE |-> "technical_support",
      TECHNICAL_SUPPORT |-> "technical_support",
      BILLING_COMPLAINT |-> "billing_team",
      RECHARGE_REQUEST |-> "automated_system",
      BALANCE_QUERY |-> "automated_system",
      PLAN_CHANGE |-> "sales_team",
      OFFER_INQUIRY |-> "sales_team",
      SUPPORT_REQUEST |-> "customer_support" ]

\* a routing that sends a grievance without intents to customer support
get_routing_by_category(intents, category) ==
    IF intents = << >>
    THEN IF category = "GRIEVANCE" THEN "customer_support" ELSE "general_support"
    ELSE Get(routing_map, intents[1].label, "general_support")

get_routing(intents, category) ==
    IF intents = << >> THEN "general_support"
    ELSE LET primary_intent == intents[1].label
         IN  Get(routing_map, primary_intent, "general_support")

(***************************************************************************)
(* Entity extraction.  A query text is the sequence of its tokens: the     *)
(* maximal runs of word characters and the currency sign, separated by     *)
(* single spaces.                                                          *)
(***************************************************************************)
LowerMap ==
    [ Mera |-> "mera", Kitna |-> "kitna", I |-> "i", Jio |-> "jio",
      Premium |-> "premium", Rs |-> "rs", Internet |-> "internet",
      Nahi |-> "nahi", Chal |-> "chal", Raha |-> "raha", Customer |-> "customer" ]

\* str.lower() of one token, and the effect of re.IGNORECASE on it
Lower(tok) == Get(LowerMap, tok, tok)

\* tokens matching \d+
DigitTokens == {"500", "300", "199"}

MatchAt(text, i, words) ==
    /\ i + Len(words) - 1 <= Len(text)
    /\ \A j \in 1..Len(words) : Lower(text[i + j - 1]) = words[j]

\* re.search(r'\b(w1|w2|...)\b', query, re.IGNORECASE): the leftmost position
\* where an alternative matches, 0 when there is none
SearchVocab(text, vocab) ==
    LET hits == {i \in 1..Len(text) : \E v \in 1..Len(vocab) : MatchAt(text, i, vocab[v].words)}
    IN  IF hits = {} THEN 0 ELSE CHOOSE i \in hits : \A j \in hits : i <= j

\* match.group(1).lower(): the first alternative, in pattern order, that
\* matches at the position found
GroupAt(text, i, vocab) ==
    LET alts == {v \in 1..Len(vocab) : MatchAt(text, i, vocab[v].words)}
    IN  vocab[CHOOSE v \in alts : \A w \in alts : v <= w].text

Word(w) == [words |-> <<w>>, text |-> w]

service_vocab ==
    << Word("data"), Word("internet"), Word("call"), Word("sms"), Word("roaming"),
       Word("network"), Word("hotspot"), Word("wifi") >>

\* the issue words without the two Hindi ones
issue_vocab_english ==
    << Word("slow"), [words |-> <<"not", "working">>, text |-> "not working"],
       Word("stopped"), Word("failed"), Word("down"), Word("problem"), Word("issue") >>

issue_vocab ==
    << Word("slow"), [words |-> <<"not", "working">>, text |-> "not working"],
       Word("stopped"), Word("failed"), Word("down"), Word("problem"), Word("issue"),
       [words |-> <<"nahi", "chal", "raha">>, text |-> "nahi chal raha"], Word("band") >>

time_vocab ==
    << Word("today"), Word("yesterday"), [words |-> <<"last", "week">>, text |-> "last week"],
       [words |-> <<"since", "morning">>, text |-> "since morning"],
       [words |-> <<"this", "month">>, text |-> "this month"], Word("aaj"), Word("kal") >>

carrier_vocab == << Word("jio"), Word("airtel"), Word("vi"), Word("vodafone"), Word("bsnl") >>

tier_words == {"basic", "smart", "premium", "value", "max", "super"}

\* tokens that end with "rs": the third pattern has no word boundary before
\* its "rs"
EndsWithRs == {"rs", "offers"}

\* money_patterns[p] matches with its digits at token i
MoneyMatch(text, p, i) ==
    /\ i \in 1..Len(text)
    /\ text[i] \in DigitTokens
    /\ CASE p = 1 -> i > 1 /\ text[i - 1] = "₹"
         [] p = 2 -> i < Len(text) /\ Lower(text[i + 1]) \in {"rupee", "rupees"}
         [] p = 3 -> i > 1 /\ Lower(text[i - 1]) \in EndsWithRs
         [] p = 4 -> i < Len(text) /\ Lower(text[i + 1]) = "rs"

\* a loop that takes the pattern whose match begins first in the text
LeftmostMoneyPattern(text) ==
    LET ps == {p \in 1..4 : \E i \in 1..Len(text) : MoneyMatch(text, p, i)}
        at(p) == CHOOSE i \in 1..Len(text) :
                    /\ MoneyMatch(text, p, i)
                    /\ \A j \in 1..Len(text) : MoneyMatch(text, p, j) => i <= j
    IN  IF ps = {} THEN 0
        ELSE CHOOSE p \in ps : \A q \in ps : at(p) < at(q) \/ (at(p) = at(q) /\ p <= q)

\* the for loop over money_patterns: the first pattern with a match, 0 for none
FirstMoneyPattern(text) ==
    LET ps == {p \in 1..4 : \E i \in 1..Len(text) : MoneyMatch(text, p, i)}
    IN  IF ps = {} THEN 0 ELSE CHOOSE p \in ps : \A q \in ps : p <= q

\* match.group(1) of re.search(money_patterns[p], query): the leftmost match
MoneyGroup(text, p) ==
    LET hits == {i \in 1..Len(text) : MoneyMatch(text, p, i)}
    IN  text[CHOOSE i \in hits : \A j \in hits : i <= j]

\* plan_match.group(0): the carrier as written, then the tier as written when
\* a tier word follows, else the blank the pattern's \s* has consumed when
\* another word follows
PlanGroup(text, i) ==
    IF i < Len(text) /\ Lower(text[i + 1]) \in tier_words
    THEN <<text[i], " ", text[i + 1]>>
    ELSE IF i < Len(text) /\ text[i + 1] # "₹" THEN <<text[i], " ">>
    ELSE <<text[i]>>

\* an extraction whose issue block is nested in the service block
extract_entities_regex_issue_in_service(query) ==
    LET p == FirstMoneyPattern(query)
        e0 == [k \in {} |-> ""]
        e1 == IF p # 0 THEN With(e0, "amount", MoneyGroup(query, p)) ELSE e0
        s  == SearchVocab(query, service_vocab)
        e2 == IF s # 0 THEN With(e1, "service", GroupAt(query, s, service_vocab)) ELSE e1
        u  == SearchVocab(query, issue_vocab)
        e3 == IF s # 0 /\ u # 0 THEN With(e2, "issue", GroupAt(query, u, issue_vocab)) ELSE e2
        c  == SearchVocab(query, carrier_vocab)
        e4 == IF c # 0 THEN With(e3, "plan_name", PlanGroup(query, c)) ELSE e3
        t  == SearchVocab(query, time_vocab)
        e5 == IF t # 0 THEN With(e4, "timeframe", GroupAt(query, t, time_vocab)) ELSE e4
    IN  e5

extract_entities_regex(query) ==
    LET p == FirstMoneyPattern(query)
        e0 == [k \in {} |-> ""]
        e1 == IF p # 0 THEN With(e0, "amount", MoneyGroup(query, p)) ELSE e0
        s  == SearchVocab(query, service_vocab)
        e2 == IF s # 0 THEN With(e1, "service", GroupAt(query, s, service_vocab)) ELSE e1
        u  == SearchVocab(query, issue_vocab)
        e3 == IF u # 0 THEN With(e2, "issue", GroupAt(query, u, issue_vocab)) ELSE e2
        c  == SearchVocab(query, carrier_vocab)
        e4 == IF c # 0 THEN With(e3, "plan_name", PlanGroup(query, c)) ELSE e3
        t  == SearchVocab(query, time_vocab)
        e5 == IF t # 0 THEN With(e4, "timeframe", GroupAt(query, t, time_vocab)) ELSE e4
    IN  e5

\* line 140: [i["label"] for i in intents]
Tags(intents) == [i \in 1..Len(intents) |-> intents[i].label]

\* the last intent taken for the first
PrimaryIntentLast(intents) ==
    IF intents # << >> THEN intents[Len(intents)].label ELSE "UNKNOWN"

\* line 142: intents[0]["label"] if intents else "UNKNOWN"
PrimaryIntent(intents) == IF intents # << >> THEN intents[1].label ELSE "UNKNOWN"

\* classify_query: isims and tsims are the similarities the embedding model
\* gives the query against the intent and the type catalog.
classify_query(query, isims, tsims) ==
    LET intents == detect_intents(isims)
        entities == extract_entities_regex(query)
        type_result == determine_type(tsims)
    IN  IF type_result.raised # "no"
        THEN [raised |-> type_result.raised]
        ELSE [raised |-> "no",
              value |->
                [intents |-> intents,
                 entities |-> entities,
                 category |-> type_result.category,
                 type |-> type_result.type,
                 type_name |-> type_result.type_name,
                 department |-> type_result.department,
                 confidence |-> type_result.confidence,
                 tags |-> Tags(intents),
                 routing |-> get_routing(intents, type_result.category),
                 primary_intent |-> PrimaryIntent(intents),
                 original_query |-> query]]

(***************************************************************************)
(* Inputs of the classifier                                                *)
(***************************************************************************)
NumIntents == Len(IntentLabels)
NumTypes == Len(type_embeddings)

Q_slow == << "Mera", "internet", "bahut", "slow", "hai", "aur", "500", "rupees",
             "ka", "recharge", "bhi", "nahi", "ho", "raha" >>
Q_balance == << "Kitna", "data", "bacha", "hai" >>
Q_recharge == << "₹", "500", "ka", "recharge" >>
Q_down == << "internet", "nahi", "chal", "raha" >>
Q_upgrade == << "I", "want", "to", "upgrade", "to", "Jio", "Premium" >>

QueryTexts == {Q_slow, Q_balance, Q_recharge, Q_down, Q_upgrade}

\* further texts for the entity extraction
Q_two_amounts == << "500", "rs", "ka", "pack", "aur", "₹", "300", "cashback" >>
Q_rs_rupees == << "Rs", "199", "ya", "500", "rupees", "wala", "plan" >>
Q_offers == << "Jio", "offers", "199", "today" >>
Q_speed == << "speed", "bahut", "slow", "hai" >>
Q_care == << "Customer", "care", "number", "kya", "hai" >>
Q_upgrade_lower == << "i", "want", "to", "upgrade", "to", "jio", "premium" >>
Q_down_capitals == << "Internet", "Nahi", "Chal", "Raha" >>

EntityTexts ==
    QueryTexts \cup {Q_two_amounts, Q_rs_rupees, Q_offers, Q_speed, Q_care,
                     Q_upgrade_lower, Q_down_capitals}

\* similarity vectors: one value everywhere but at entries a and b
Spiked(n, base, a, va, b, vb) ==
    [i \in 1..n |-> IF i = a THEN va ELSE IF i = b THEN vb ELSE base]

IntentBase == {-100, 250}
IntentSpike == {249, 250, 254, 256, 700}
TypeBase == {-300, 0, 100}
TypeSpike == {0, 100, 104, 600}

\* inputs of _detect_intents
IntentSims ==
    { Spiked(NumIntents, base, a, va, b, vb) :
        base \in IntentBase, a \in 1..NumIntents, va \in IntentSpike,
        b \in 1..NumIntents, vb \in IntentSpike }

\* inputs of _determine_type
TypeSims ==
    { Spiked(NumTypes, base, a, va, b, vb) :
        base \in TypeBase, a \in 1..NumTypes, va \in TypeSpike,
        b \in 1..NumTypes, vb \in TypeSpike }

\* inputs of classify_query: a query text with its two similarity vectors
ClassifyIntentSims ==
    { Spiked(NumIntents, base, a, va, a, va) :
        base \in IntentBase, a \in 1..NumIntents, va \in IntentSpike }

\* the first and the last entry of each of the two catalogs
ClassifyTypeSpots == {1, Len(QUERY_TYPES), Len(QUERY_TYPES) + 1, NumTypes}

ClassifyTypeSims ==
    { Spiked(NumTypes, base, a, va, a, va) :
        base \in TypeBase, a \in ClassifyTypeSpots, va \in TypeSpike }

\* inputs of _get_routing: the intent lists a detection can give, and lists
\* whose first label the routing map does not have
RoutingIntents ==
    { << >> }
    \cup { <<[label |-> l, confidence |-> 30]>> : l \in Range(IntentLabels) \cup {"UNKNOWN", "GREETING"} }
    \cup { <<[label |-> l, confidence |-> 30], [label |-> m, confidence |-> 28]>> :
             l \in Range(IntentLabels) \cup {"GREETING"}, m \in {"NETWORK_ISSUE", "PLAN_CHANGE"} }

Categories == {"QUERY", "GRIEVANCE"}

(***************************************************************************)
(* Calls on the classifier: one call per behaviour, on a classifier whose  *)
(* initialization has completed                                            *)
(***************************************************************************)
NoCall == [fn |-> "none"]

DetectIntents ==
    /\ call = NoCall
    /\ \E isims \in IntentSims :
        /\ call' = [fn |-> "_detect_intents", isims |-> isims, ret |-> detect_intents(isims)]
        /\ UNCHANGED <<sumVars, storeVars, classifier, threads, returned>>

DetermineType ==
    /\ call = NoCall
    /\ \E tsims \in TypeSims :
        /\ call' = [fn |-> "_determine_type", tsims |-> tsims, ret |-> determine_type(tsims)]
        /\ UNCHANGED <<sumVars, storeVars, classifier, threads, returned>>

ExtractEntities ==
    /\ call = NoCall
    /\ \E query \in EntityTexts :
        /\ call' = [fn |-> "_extract_entities_regex", query |-> query,
                    ret |-> extract_entities_regex(query)]
        /\ UNCHANGED <<sumVars, storeVars, classifier, threads, returned>>

GetRouting ==
    /\ call = NoCall
    /\ \E intents \in RoutingIntents, category \in Categories :
        /\ call' = [fn |-> "_get_routing", intents |-> intents, category |-> category,
                    ret |-> get_routing(intents, category)]
        /\ UNCHANGED <<sumVars, storeVars, classifier, threads, returned>>

ClassifyQuery ==
    /\ call = NoCall
    /\ \E query \in QueryTexts, isims \in ClassifyIntentSims, tsims \in ClassifyTypeSims :
        /\ call' = [fn |-> "classify_query", query |-> query, isims |-> isims,
                    tsims |-> tsims, ret |-> classify_query(query, isims, tsims)]
        /\ UNCHANGED <<sumVars, storeVars, classifier, threads, returned>>

(***************************************************************************)
(* ConversationManager: the tables and the two inserts                     *)
(***************************************************************************)
\* most store calls in one behaviour
MaxOps == 3

\* rows of table users: user_id and phone
Users == {1, 2}
PhoneOf(user_id) == IF user_id = 1 THEN "9876543210" ELSE "9123456789"

EmptyDict == [k \in {} |-> ""]

\* json.dumps(value): the value as a JSON document
JsonDumps(value) == [json |-> value]

\* AUTO_INCREMENT key of the next row; no row is ever deleted
NextId(table) == Len(table) + 1

NoOp == [name |-> "none", outcome |-> "none"]

\* The INSERT of a "with self.engine.begin()" block.  The block commits when
\* the statement succeeds; when it raises (the connection is lost, fault, or a
\* FOREIGN KEY has no parent row) the block rolls back and re-raises.
UserExists(user_id) == user_id \in Users

ConversationExists(conversation_id) ==
    \E i \in 1..Len(conversations) : conversations[i].conversation_id = conversation_id

\* rows of a record table that refer to a conversation
RecordsOf(table, conversation_id) ==
    {i \in 1..Len(table) : table[i].conversation_id = conversation_id}

\* a table chosen by an if/elif that has no branch for other category values
RecordTableStrict(category) ==
    IF category = "GRIEVANCE" THEN "grievances"
    ELSE IF category = "QUERY" THEN "queries" ELSE "none"

\* every record opened, whatever its category
RecordStatusAlwaysOpen(category) == "open"

\* lines 108-113: the table and the status chosen from the category
RecordTable(category) == IF category = "GRIEVANCE" THEN "grievances" ELSE "queries"

RecordStatus(category) == IF category = "GRIEVANCE" THEN "open" ELSE "resolved"

save_conversation(user_id, phone, query, response, classification_result, fault) ==
    LET primary_intent == Get(classification_result, "primary_intent", "UNKNOWN")
        intent_tags == JsonDumps(Get(classification_result, "intents", << >>))
        entities == JsonDumps(Get(classification_result, "entities", EmptyDict))
        category == Get(classification_result, "category", "QUERY")
        routing == Get(classification_result, "routing", "customer_support")
        conversation_id == NextId(conversations)
        row == [conversation_id |-> conversation_id, user_id |-> user_id, phone |-> phone,
                query_text |-> query, response_text |-> response,
                primary_intent |-> primary_intent, intent_tags |-> intent_tags,
                entities |-> entities, category |-> category, routing |-> routing]
    IN  /\ IF ~fault /\ UserExists(user_id)
           THEN /\ conversations' = Append(conversations, row)
                /\ op' = [name |-> "save_conversation", statement |-> "executed",
                          outcome |-> "returned", ret |-> conversation_id, classification_result |-> classification_result]
           ELSE /\ conversations' = conversations
                /\ op' = [name |-> "save_conversation", statement |-> "raised",
                          outcome |-> "raised"]
        /\ nops' = nops + 1
        /\ UNCHANGED <<queries, grievances>>

\* a create_record that catches the storage error and returns None (0)
create_record_swallowing(conversation_id, user_id, phone, classification_result, fault) ==
    LET category == Get(classification_result, "category", "QUERY")
        table == RecordTable(category)
        record_id == IF table = "grievances" THEN NextId(grievances) ELSE NextId(queries)
        row == [id |-> record_id, conversation_id |-> conversation_id, user_id |-> user_id,
                phone |-> phone, type |-> Get(classification_result, "type_name", "Unknown"),
                department |-> Get(classification_result, "department", "Customer Support"),
                description |-> Get(classification_result, "original_query", << >>),
                extracted_entities |-> JsonDumps(Get(classification_result, "entities", EmptyDict)),
                status |-> RecordStatus(category), created_at |-> now]
    IN  /\ IF ~fault /\ UserExists(user_id) /\ ConversationExists(conversation_id)
           THEN /\ grievances' = IF table = "grievances" THEN Append(grievances, row) ELSE grievances
                /\ queries' = IF table = "queries" THEN Append(queries, row) ELSE queries
                /\ op' = [name |-> "create_record", statement |-> "executed",
                          outcome |-> "returned", ret |-> record_id,
                          conversation_id |-> conversation_id,
                          user_id |-> user_id, phone |-> phone,
                          classification_result |-> classification_result]
           ELSE /\ UNCHANGED <<queries, grievances>>
                /\ op' = [name |-> "create_record", statement |-> "raised",
                          outcome |-> "returned", ret |-> 0,
                          conversation_id |-> conversation_id]
        /\ nops' = nops + 1
        /\ UNCHANGED conversations

\* lines 13-19: ROUTING_TO_DEPARTMENT
ROUTING_TO_DEPARTMENT(routing) ==
    CASE routing = "technical_support" -> "Technical Support"
      [] routing = "billing_team" -> "Billing Department"
      [] routing = "sales_team" -> "Sales & Retention"
      [] OTHER -> "Customer Support"

\* a create_record that takes the department from the routing
create_record_department_from_routing(conversation_id, user_id, phone, classification_result, fault) ==
    LET category == Get(classification_result, "category", "QUERY")
        table == RecordTable(category)
        record_id == IF table = "grievances" THEN NextId(grievances) ELSE NextId(queries)
        row == [id |-> record_id, conversation_id |-> conversation_id, user_id |-> user_id,
                phone |-> phone, type |-> Get(classification_result, "type_name", "Unknown"),
                department |-> ROUTING_TO_DEPARTMENT(Get(classification_result, "routing",
                                                         "customer_support")),
                description |-> Get(classification_result, "original_query", << >>),
                extracted_entities |-> JsonDumps(Get(classification_result, "entities", EmptyDict)),
                status |-> RecordStatus(category), created_at |-> now]
    IN  /\ IF ~fault /\ UserExists(user_id) /\ ConversationExists(conversation_id)
           THEN /\ grievances' = IF table = "grievances" THEN Append(grievances, row) ELSE grievances
                /\ queries' = IF table = "queries" THEN Append(queries, row) ELSE queries
                /\ op' = [name |-> "create_record", statement |-> "executed",
                          outcome |-> "returned", ret |-> record_id,
                          conversation_id |-> conversation_id,
                          user_id |-> user_id, phone |-> phone,
                          classification_result |-> classification_result]
           ELSE /\ UNCHANGED <<queries, grievances>>
                /\ op' = [name |-> "create_record", statement |-> "raised",
                          outcome |-> "raised", conversation_id |-> conversation_id]
        /\ nops' = nops + 1
        /\ UNCHANGED conversations

create_record(conversation_id, user_id, phone, classification_result, fault) ==
    LET category == Get(classification_result, "category", "QUERY")
        type_name == Get(classification_result, "type_name", "Unknown")
        department == Get(classification_result, "department", "Customer Support")
        description == Get(classification_result, "original_query", << >>)
        entities == JsonDumps(Get(classification_result, "entities", EmptyDict))
        table == RecordTable(category)
        status == RecordStatus(category)
        record_id == IF table = "grievances" THEN NextId(grievances) ELSE NextId(queries)
        row == [id |-> record_id, conversation_id |-> conversation_id, user_id |-> user_id,
                phone |-> phone, type |-> type_name, department |-> department,
                description |-> description, extracted_entities |-> entities,
                status |-> status, created_at |-> now]
    IN  /\ IF ~fault /\ UserExists(user_id) /\ ConversationExists(conversation_id)
           THEN /\ grievances' = IF table = "grievances" THEN Append(grievances, row) ELSE grievances
                /\ queries' = IF table = "queries" THEN Append(queries, row) ELSE queries
                /\ op' = [name |-> "create_record", statement |-> "executed",
                          outcome |-> "returned", ret |-> record_id,
                          conversation_id |-> conversation_id,
                          user_id |-> user_id, phone |-> phone,
                          classification_result |-> classification_result]
           ELSE /\ UNCHANGED <<queries, grievances>>
                /\ op' = [name |-> "create_record", statement |-> "raised",
                          outcome |-> "raised", conversation_id |-> conversation_id]
        /\ nops' = nops + 1
        /\ UNCHANGED conversations

(***************************************************************************)
(* ConversationManager: the filtered reads and the aggregates.  An         *)
(* optional argument is << >> for None and <<v>> for the value v.          *)
(***************************************************************************)
None == << >>
Some(v) == <<v>>

\* "if department:", "if status:": None and the empty string are falsy
Given(arg) == arg # None /\ arg[1] # ""

\* "if start_date:", "if end_date:": no datetime is falsy
GivenDate(arg) == arg # None

\* rows of table users: name
UserName(user_id) == IF user_id = 1 THEN "Rajesh Kumar" ELSE "Priya Sharma"

\* a WHERE clause that leaves the status condition out
WhereWithoutStatus(row, department, start_date, end_date, status) ==
    /\ Given(department) => row.department = department[1]
    /\ GivenDate(start_date) => row.created_at >= start_date[1]
    /\ GivenDate(end_date) => row.created_at <= end_date[1]

\* WHERE 1=1 and the conditions appended for the arguments given
Where(row, department, start_date, end_date, status) ==
    /\ Given(department) => row.department = department[1]
    /\ GivenDate(start_date) => row.created_at >= start_date[1]
    /\ GivenDate(end_date) => row.created_at <= end_date[1]
    /\ Given(status) => row.status = status[1]

\* the sequences that hold each element of S once
RECURSIVE Orders(_)
Orders(S) ==
    IF S = {} THEN { << >> }
    ELSE UNION { { <<x>> \o o : o \in Orders(S \ {x}) } : x \in S }

\* the columns of the SELECT list, the last two from the joined users row
Fetched(row) ==
    [id |-> row.id, type |-> row.type, department |-> row.department,
     description |-> row.description, status |-> row.status,
     created_at |-> row.created_at, extracted_entities |-> row.extracted_entities,
     name |-> UserName(row.user_id), phone |-> PhoneOf(row.user_id)]

\* fetchall() of the SELECT: every result the database can give.  ORDER BY
\* created_at DESC leaves the order of rows of equal created_at open.
Select(table, department, start_date, end_date, status) ==
    LET hits == {i \in 1..Len(table) :
                    /\ UserExists(table[i].user_id)
                    /\ Where(table[i], department, start_date, end_date, status)}
        sorted == {o \in Orders(hits) :
                    \A k \in 1..(Len(o) - 1) :
                        table[o[k]].created_at >= table[o[k + 1]].created_at}
    IN  { [k \in 1..Len(o) |-> Fetched(table[o[k]])] : o \in sorted }

get_queries(department, start_date, end_date, status) ==
    Select(queries, department, start_date, end_date, status)

get_grievances(department, start_date, end_date, status) ==
    Select(grievances, department, start_date, end_date, status)

\* SUM(CASE WHEN status = s THEN 1 ELSE 0 END): NULL over no row
SumStatus(table, hits, s) ==
    IF hits = {} THEN None ELSE Some(Cardinality({i \in hits : table[i].status = s}))

\* row[i] or 0
OrZero(x) == IF x = None THEN 0 ELSE x[1]

get_query_stats(department, start_date, end_date) ==
    LET hits == {i \in 1..Len(queries) :
                    Where(queries[i], department, start_date, end_date, None)}
    IN  [total |-> OrZero(Some(Cardinality(hits))),
         pending |-> OrZero(SumStatus(queries, hits, "pending")),
         resolved |-> OrZero(SumStatus(queries, hits, "resolved"))]

\* statistics that are not narrowed to the department
get_grievance_stats_all_departments(department, start_date, end_date) ==
    LET hits == {i \in 1..Len(grievances) :
                    Where(grievances[i], None, start_date, end_date, None)}
    IN  [total |-> OrZero(Some(Cardinality(hits))),
         open |-> OrZero(SumStatus(grievances, hits, "open")),
         in_progress |-> OrZero(SumStatus(grievances, hits, "in_progress")),
         resolved |-> OrZero(SumStatus(grievances, hits, "resolved")),
         closed |-> OrZero(SumStatus(grievances, hits, "closed"))]

get_grievance_stats(department, start_date, end_date) ==
    LET hits == {i \in 1..Len(grievances) :
                    Where(grievances[i], department, start_date, end_date, None)}
    IN  [total |-> OrZero(Some(Cardinality(hits))),
         open |-> OrZero(SumStatus(grievances, hits, "open")),
         in_progress |-> OrZero(SumStatus(grievances, hits, "in_progress")),
         resolved |-> OrZero(SumStatus(grievances, hits, "resolved")),
         closed |-> OrZero(SumStatus(grievances, hits, "closed"))]

(***************************************************************************)
(* Callers of the store                                                    *)
(***************************************************************************)
\* what the embedding model gives for three of the query texts
SampleCalls ==
    { <<Q_balance, Spiked(NumIntents, 120, 1, 610, 1, 610), Spiked(NumTypes, 150, 1, 720, 1, 720)>>,
      <<Q_down, Spiked(NumIntents, 120, 2, 580, 8, 310), Spiked(NumTypes, 150, 9, 660, 9, 660)>>,
      <<Q_upgrade, Spiked(NumIntents, -40, 7, 120, 7, 120), Spiked(NumTypes, -40, 2, 0, 2, 0)>> }

Classified(input) == classify_query(input[1], input[2], input[3])

\* the classifications the application can hold
AppClassifications ==
    { Classified(input).value : input \in {c \in SampleCalls : Classified(c).raised = "no"} }

\* classification dicts handed to the store by any caller: those of the
\* classifier, and dicts without a category or with another category value
StoreClassifications ==
    AppClassifications
    \cup { Without(c, "category") : c \in {d \in AppClassifications : d.category = "GRIEVANCE"} }
    \cup { With(c, "category", "COMPLAINT") : c \in {d \in AppClassifications : d.category = "GRIEVANCE"} }

Response == "Aapka request note kar liya gaya hai"

\* a caller of ConversationManager.save_conversation
SaveConversation ==
    \E user_id \in Users, c \in StoreClassifications, fault \in BOOLEAN :
        /\ nops < MaxOps
        /\ save_conversation(user_id, PhoneOf(user_id),
                             Get(c, "original_query", Q_balance), Response, c, fault)
        /\ UNCHANGED <<sumVars, clsVars, now, session, turn>>

\* a caller of ConversationManager.create_record; the conversation id is one
\* of the stored ones or the next one, which no row has yet
CreateRecord ==
    \E conversation_id \in 1..NextId(conversations), user_id \in Users,
       c \in StoreClassifications, fault \in BOOLEAN :
        /\ nops < MaxOps
        /\ create_record(conversation_id, user_id, PhoneOf(user_id), c, fault)
        /\ UNCHANGED <<sumVars, clsVars, now, session, turn>>

\* the session between two turns; failed_at names the store call of its last
\* turn whose exception the persistence block caught and printed
Idle(failed_at) == [pc |-> "idle", failed_at |-> failed_at]

\* app.py, a voice or text turn up to and including save_conversation:
\* get_ai_response classifies the input and keeps the result in
\* st.session_state.last_classification (an error of classify_query is
\* caught and leaves the entry as it was); the persistence block then reads
\* that entry and saves the conversation when it is not empty.  Any exception
\* of the block is caught and printed.
TurnSave ==
    \E input \in SampleCalls, fault \in BOOLEAN :
        LET user_input == input[1]
            r == Classified(input)
            last == IF r.raised = "no"
                    THEN With(r.value, "original_query", user_input)
                    ELSE session.last_classification
        IN  /\ turn.pc = "idle"
            /\ nops < MaxOps
            /\ session' = [session EXCEPT !.last_classification = last]
            /\ IF last = EmptyDict
               THEN /\ UNCHANGED <<conversations, queries, grievances, op, nops>>
                    /\ turn' = Idle("none")
               ELSE /\ save_conversation(session.user_id, session.phone, user_input,
                                         Response, last, fault)
                    /\ turn' = IF op'.outcome = "returned"
                               THEN [pc |-> "create_record", conv_id |-> op'.ret,
                                     classification_result |-> last]
                               ELSE Idle("save_conversation")
            /\ UNCHANGED <<sumVars, clsVars, now>>

\* a persistence block that is one transaction: a failure of create_record
\* takes the conversation row back
TurnCreateRollsBack ==
    \E fault \in BOOLEAN :
        /\ turn.pc = "create_record"
        /\ IF ~fault /\ UserExists(session.user_id) /\ ConversationExists(turn.conv_id)
           THEN /\ create_record(turn.conv_id, session.user_id, session.phone,
                                 turn.classification_result, fault)
                /\ turn' = Idle("none")
           ELSE /\ conversations' =
                        SelectSeq(conversations, LAMBDA r : r.conversation_id # turn.conv_id)
                /\ op' = [name |-> "create_record", statement |-> "raised",
                          outcome |-> "raised", conversation_id |-> turn.conv_id]
                /\ nops' = nops + 1
                /\ UNCHANGED <<queries, grievances>>
                /\ turn' = Idle("create_record")
        /\ UNCHANGED <<sumVars, clsVars, now, session>>

\* app.py, the rest of the persistence block: create_record for the
\* conversation just saved, with the same classification
TurnCreate ==
    \E fault \in BOOLEAN :
        /\ turn.pc = "create_record"
        /\ create_record(turn.conv_id, session.user_id, session.phone,
                         turn.classification_result, fault)
        /\ turn' = Idle(IF op'.outcome = "raised" THEN "create_record" ELSE "none")
        /\ UNCHANGED <<sumVars, clsVars, now, session>>

(***************************************************************************)
(* app.py: one browser session from its first script run, with login and   *)
(* logout.  st.session_state is a dict; a key that was never set is not in *)
(* its domain.                                                             *)
(***************************************************************************)
\* most turns of one session
MaxTurns == 2

\* st.session_state.phone = None
NoPhone == "None"

\* the value of st.session_state.ticket_classifier: the object, or None
TicketClassifierObject == "TicketClassifier"
NoClassifier == "None"

\* if key not in st.session_state: st.session_state[key] = value
SetDefault(s, k, v) == IF k \in DOMAIN s THEN s ELSE With(s, k, v)

\* lines 164-173: TicketClassifier() is constructed only while the session
\* has no ticket_classifier key; ok is whether the constructor returns
InitTicketClassifier(s, ok) ==
    IF "ticket_classifier" \in DOMAIN s THEN s
    ELSE IF ok
         THEN With(With(s, "ticket_classifier", TicketClassifierObject),
                   "classifier_enabled", TRUE)
         ELSE With(With(s, "ticket_classifier", NoClassifier), "classifier_enabled", FALSE)

\* lines 136-191, the top of the script, which every run executes
session_init(s, ok) ==
    LET s1 == SetDefault(s, "authenticated", FALSE)
        s2 == SetDefault(s1, "phone", NoPhone)
        s3 == SetDefault(s2, "user_name", NoPhone)
        s4 == SetDefault(s3, "conversation_history", << >>)
        s5 == InitTicketClassifier(s4, ok)
    IN  SetDefault(s5, "total_queries", 0)

\* the call on the TicketClassifier class that a run of the top of the
\* script makes, if it makes one
InitCall(s, ok) ==
    IF "ticket_classifier" \in DOMAIN s THEN call
    ELSE [fn |-> "__init__", raised |-> ~ok]

\* a get_ai_response that calls classify_query whatever classifier_enabled says
get_ai_response_unguarded(s, input) ==
    LET s1 == With(s, "total_queries", s.total_queries + 1)
        r == Classified(input)
        s2 == IF r.raised = "no"
              THEN With(s1, "last_classification",
                        With(r.value, "original_query", input[1]))
              ELSE s1
    IN  [session |-> s2, classified |-> TRUE, ret |-> r, response |-> Response]

\* lines 442-488, get_ai_response: the counter, the classification step with
\* its try/except, and the answer of the retrieval or the language model,
\* which does not read the classification
get_ai_response(s, input) ==
    LET s1 == With(s, "total_queries", s.total_queries + 1)
        enabled == s1.classifier_enabled /\ s1.ticket_classifier # NoClassifier
        r == Classified(input)
        s2 == IF enabled /\ r.raised = "no"
              THEN With(s1, "last_classification",
                        With(r.value, "original_query", input[1]))
              ELSE s1
    IN  [session |-> s2, classified |-> enabled, ret |-> r, response |-> Response]

\* the first run of the script in a new browser session: the login page
FirstRun ==
    \E ok \in BOOLEAN :
        /\ "ticket_classifier" \notin DOMAIN session
        /\ session' = session_init(session, ok)
        /\ call' = InitCall(session, ok)
        /\ UNCHANGED <<conversations, queries, grievances, op, turn, nops, now,
                       classifier, threads, returned, sumVars>>

\* lines 747-763: a phone number of table users is entered
Login ==
    \E user_id \in Users, ok \in BOOLEAN :
        LET s == session_init(session, ok)
        IN  /\ "authenticated" \in DOMAIN session
            /\ ~session.authenticated
            /\ turn.pc = "idle"
            /\ session' = With(With(With(With(s, "authenticated", TRUE),
                                          "phone", PhoneOf(user_id)),
                                     "user_name", UserName(user_id)),
                                "user_id", user_id)
            /\ call' = InitCall(session, ok)
            /\ UNCHANGED <<conversations, queries, grievances, op, turn, nops, now,
                           classifier, threads, returned, sumVars>>

\* lines 795-801: the Logout button
Logout ==
    \E ok \in BOOLEAN :
        LET s == session_init(session, ok)
        IN  /\ "authenticated" \in DOMAIN session
            /\ session.authenticated
            /\ turn.pc = "idle"
            /\ session' = With(With(With(With(s, "authenticated", FALSE),
                                          "phone", NoPhone),
                                     "user_name", NoPhone),
                                "conversation_history", << >>)
            /\ call' = InitCall(session, ok)
            /\ UNCHANGED <<conversations, queries, grievances, op, turn, nops, now,
                           classifier, threads, returned, sumVars>>

\* lines 818-853 and 880-912: the Process Voice Query or the Send Query
\* button with a query that is not empty, up to and including
\* save_conversation
SubmitQuery ==
    \E input \in SampleCalls, fault \in BOOLEAN, ok \in BOOLEAN :
        /\ "authenticated" \in DOMAIN session
        /\ session.authenticated
        /\ turn.pc = "idle"
        /\ session.total_queries < MaxTurns
        /\ \E a \in {get_ai_response(session_init(session, ok), input)} :
           \E s \in {With(a.session, "conversation_history",
                          Append(a.session.conversation_history,
                                 [query |-> input[1], response |-> a.response,
                                  timestamp |-> now]))} :
           \E classification_result \in {Get(s, "last_classification", EmptyDict)} :
               /\ session' = s
               /\ call' = IF a.classified
                          THEN [fn |-> "classify_query", query |-> input[1],
                                isims |-> input[2], tsims |-> input[3],
                                ret |-> a.ret]
                          ELSE InitCall(session, ok)
               /\ IF "user_id" \in DOMAIN s /\ classification_result # EmptyDict
                  THEN /\ save_conversation(s.user_id, s.phone, input[1], a.response,
                                            classification_result, fault)
                       /\ turn' = IF op'.outcome = "returned"
                                  THEN [pc |-> "create_record", conv_id |-> op'.ret,
                                        classification_result |-> classification_result]
                                  ELSE Idle("save_conversation")
                  ELSE /\ UNCHANGED <<conversations, queries, grievances, op, nops>>
                       /\ turn' = Idle("none")
        /\ UNCHANGED <<now, classifier, threads, returned, sumVars>>

(***************************************************************************)
(* The store as the dashboards read it: the migration that creates the     *)
(* record tables, callers of the two inserts, the clock, and the reads     *)
(***************************************************************************)
\* latest second of the clock
MaxTime == 1

ReadNames == {"get_queries", "get_grievances", "get_query_stats", "get_grievance_stats"}

\* No read has been made yet.  A read changes nothing in the store, so every
\* store state that follows a read is reached without it as well; behaviours
\* are followed up to their first read.
NoReadYet == op.name \notin ReadNames

\* one second passes
Tick ==
    /\ NoReadYet
    /\ now < MaxTime
    /\ now' = now + 1
    /\ UNCHANGED <<sumVars, clsVars, conversations, queries, grievances, op, session, turn, nops>>

\* what the embedding model gives for three query texts: a query of Sales, a
\* grievance of Network Operations and a grievance of Technical Support
ReadCalls ==
    { <<Q_recharge, Spiked(NumIntents, 120, 3, 640, 3, 640), Spiked(NumTypes, 150, 3, 690, 3, 690)>>,
      <<Q_down, Spiked(NumIntents, 120, 2, 580, 8, 310), Spiked(NumTypes, 150, 9, 660, 9, 660)>>,
      <<Q_slow, Spiked(NumIntents, 120, 2, 570, 3, 410), Spiked(NumTypes, 150, 12, 630, 12, 630)>> }

ReadClassifications == { Classified(input).value : input \in ReadCalls }

\* the conversation saved last has a record
LastHasRecord ==
    \/ conversations = << >>
    \/ RecordsOf(queries, Len(conversations)) # {}
    \/ RecordsOf(grievances, Len(conversations)) # {}

\* a caller that saves the conversation of a classified query, once it has
\* created the record of the one before
PopulateSave ==
    \E c \in ReadClassifications :
        /\ NoReadYet
        /\ nops < MaxOps
        /\ LastHasRecord
        /\ save_conversation(1, PhoneOf(1), c.original_query, Response, c, FALSE)
        /\ UNCHANGED <<sumVars, clsVars, now, session, turn>>

\* a caller that creates the record of the conversation saved last, from the
\* classification of its query, when it has no record
PopulateCreate ==
    \E c \in ReadClassifications :
        /\ NoReadYet
        /\ nops < MaxOps
        /\ conversations # << >>
        /\ c.original_query = conversations[Len(conversations)].query_text
        /\ ~LastHasRecord
        /\ create_record(Len(conversations), 1, PhoneOf(1), c, FALSE)
        /\ UNCHANGED <<sumVars, clsVars, now, session, turn>>

\* rows of the old table complaints
LegacyComplaint(complaint_type, department, status) ==
    [conversation_id |-> 1, user_id |-> 1, phone |-> PhoneOf(1),
     complaint_type |-> complaint_type, department |-> department,
     description |-> Q_down, extracted_entities |-> JsonDumps(extract_entities_regex(Q_down)),
     status |-> status, created_at |-> 0]

\* contents of the old table complaints; empty also when there is no such
\* table
LegacyComplaints ==
    { << >>,
      << LegacyComplaint("NETWORK_ISSUE", "Network Operations", "in_progress"),
         LegacyComplaint("BILLING_COMPLAINT", "Billing Department", "closed") >> }

\* migrate(): creates the tables queries and grievances, copies the rows of
\* complaints to grievances, and inserts one sample query and one sample
\* grievance for a user row (users is not empty).  A NULL conversation_id is 0.
Migrate ==
    /\ NoReadYet
    /\ queries = << >>
    /\ grievances = << >>
    /\ \E complaints \in LegacyComplaints, user_id \in Users :
          /\ \A i \in 1..Len(complaints) : ConversationExists(complaints[i].conversation_id)
          /\ LET migrated ==
                    [i \in 1..Len(complaints) |->
                        [id |-> i, conversation_id |-> complaints[i].conversation_id,
                         user_id |-> complaints[i].user_id, phone |-> complaints[i].phone,
                         type |-> complaints[i].complaint_type,
                         department |-> complaints[i].department,
                         description |-> complaints[i].description,
                         extracted_entities |-> complaints[i].extracted_entities,
                         status |-> complaints[i].status,
                         created_at |-> complaints[i].created_at]]
                 sample_query ==
                    [id |-> 1, conversation_id |-> 0, user_id |-> user_id,
                     phone |-> PhoneOf(user_id), type |-> "BALANCE_QUERY",
                     department |-> "Customer Support",
                     description |-> <<"User", "asked", "about", "remaining", "data", "balance">>,
                     extracted_entities |-> JsonDumps(EmptyDict),
                     status |-> "resolved", created_at |-> now]
                 sample_grievance ==
                    [id |-> Len(migrated) + 1, conversation_id |-> 0, user_id |-> user_id,
                     phone |-> PhoneOf(user_id), type |-> "NETWORK_ISSUE",
                     department |-> "Network Operations",
                     description |-> <<"User", "reported", "slow", "internet", "speed",
                                       "in", "their", "area">>,
                     extracted_entities |-> JsonDumps([issue |-> "slow"]),
                     status |-> "open", created_at |-> now]
             IN  /\ queries' = <<sample_query>>
                 /\ grievances' = Append(migrated, sample_grievance)
    /\ UNCHANGED <<sumVars, clsVars, conversations, op, session, turn, nops, now>>

\* the arguments the callers of the reads pass
QueryDepartments == {None, Some("Customer Support")}
GrievanceDepartments == {None, Some("Network Operations")}
QueryStatuses == {None, Some("pending"), Some("resolved")}
GrievanceStatuses == {None, Some("open"), Some("resolved")}
StartDates == {None, Some(1)}
EndDates == {None, Some(0)}

Read(name, department, start_date, end_date, status, ret) ==
    /\ NoReadYet
    /\ op' = [name |-> name, outcome |-> "returned", department |-> department,
              start_date |-> start_date, end_date |-> end_date, status |-> status,
              ret |-> ret]
    /\ UNCHANGED <<sumVars, clsVars, conversations, queries, grievances, session, turn, nops, now>>

GetQueries ==
    \E department \in QueryDepartments, start_date \in StartDates,
       end_date \in EndDates, status \in QueryStatuses :
        \E ret \in get_queries(department, start_date, end_date, status) :
            Read("get_queries", department, start_date, end_date, status, ret)

GetGrievances ==
    \E department \in GrievanceDepartments, start_date \in StartDates,
       end_date \in EndDates, status \in GrievanceStatuses :
        \E ret \in get_grievances(department, start_date, end_date, status) :
            Read("get_grievances", department, start_date, end_date, status, ret)

GetQueryStats ==
    \E department \in QueryDepartments, start_date \in StartDates, end_date \in EndDates :
        Read("get_query_stats", department, start_date, end_date, None,
             get_query_stats(department, start_date, end_date))

GetGrievanceStats ==
    \E department \in GrievanceDepartments, start_date \in StartDates, end_date \in EndDates :
        Read("get_grievance_stats", department, start_date, end_date, None,
             get_grievance_stats(department, start_date, end_date))

(***************************************************************************)
(* Threads calling classify_query on one TicketClassifier.  A vector is     *)
(* known by what it embeds; the embedding of a query text is known by its   *)
(* dot products with the catalog vectors.                                   *)
(***************************************************************************)
\* most classify_query calls started in one behaviour
MaxCalls == 3

Threads == {1, 2}

\* emb / np.linalg.norm(emb) of the description of intent k, of type entry k
IntentVector(k) == [catalog |-> "intent", index |-> k]
TypeVector(k) == [catalog |-> "type", index |-> k]

\* __init__: self.intent_embeddings and the 'embedding' of each entry of
\* self.type_embeddings, in insertion order
InitialClassifier ==
    [intent_embeddings |-> [k \in 1..NumIntents |-> IntentVector(k)],
     type_embeddings |-> [k \in 1..NumTypes |-> TypeVector(k)]]

SampleTexts == {input[1] : input \in SampleCalls}

\* self.model.encode(query), normalised: a function of the text alone
Encode(query) ==
    LET input == CHOOSE c \in SampleCalls : c[1] = query
    IN  [text |-> query, isims |-> input[2], tsims |-> input[3]]

\* np.dot(query_emb, emb)
Dot(query_emb, emb) ==
    IF emb.catalog = "intent" THEN query_emb.isims[emb.index]
    ELSE query_emb.tsims[emb.index]

IdleThread ==
    [pc |-> "idle", query |-> << >>, intents |-> << >>, entities |-> EmptyDict,
     type_result |-> [raised |-> "none"]]

\* classify_query calls started so far
Started == Len(returned) + Cardinality({t \in Threads : threads[t].pc # "idle"})

\* the call of thread t ends with ret, by return or by raise
Ends(t, ret) ==
    /\ returned' = Append(returned,
            [thread |-> t, query |-> threads[t].query, ret |-> ret,
             concurrent |-> \E u \in Threads \ {t} : threads[u].pc # "idle"])
    /\ threads' = [threads EXCEPT ![t] = IdleThread]

\* a thread enters classify_query(query)
ThreadBegin(t) ==
    /\ threads[t].pc = "idle"
    /\ Started < MaxCalls
    /\ \E query \in SampleTexts :
          threads' = [threads EXCEPT ![t] = [IdleThread EXCEPT !.pc = "detect_intents",
                                                               !.query = query]]
    /\ UNCHANGED <<sumVars, storeVars, call, classifier, returned>>

\* a _detect_intents that keeps the query embedding in a field of self
ThreadDetectIntentsOnSelf(t) ==
    /\ threads[t].pc = "detect_intents"
    /\ LET query_emb == Encode(threads[t].query)
           isims == [k \in 1..NumIntents |-> Dot(query_emb, classifier.intent_embeddings[k])]
       IN  /\ threads' = [threads EXCEPT ![t].intents = detect_intents(isims),
                                         ![t].pc = "extract_entities"]
           /\ classifier' = With(classifier, "query_emb", query_emb)
    /\ UNCHANGED <<sumVars, storeVars, call, returned>>

\* line 121: intents = self._detect_intents(query)
ThreadDetectIntents(t) ==
    /\ threads[t].pc = "detect_intents"
    /\ LET query_emb == Encode(threads[t].query)
           isims == [k \in 1..NumIntents |-> Dot(query_emb, classifier.intent_embeddings[k])]
       IN  threads' = [threads EXCEPT ![t].intents = detect_intents(isims),
                                      ![t].pc = "extract_entities"]
    /\ UNCHANGED <<sumVars, storeVars, call, classifier, returned>>

\* an extraction that carries the entities of the previous call over, in a
\* field of self
ThreadExtractEntitiesWithContext(t) ==
    /\ threads[t].pc = "extract_entities"
    /\ LET found == extract_entities_regex(threads[t].query)
           context == Get(classifier, "context", EmptyDict)
           entities == [k \in DOMAIN context \cup DOMAIN found |->
                           IF k \in DOMAIN found THEN found[k] ELSE context[k]]
       IN  /\ threads' = [threads EXCEPT ![t].entities = entities,
                                         ![t].pc = "determine_type"]
           /\ classifier' = With(classifier, "context", entities)
    /\ UNCHANGED <<sumVars, storeVars, call, returned>>

\* line 124: entities = self._extract_entities_regex(query)
ThreadExtractEntities(t) ==
    /\ threads[t].pc = "extract_entities"
    /\ threads' = [threads EXCEPT ![t].entities = extract_entities_regex(threads[t].query),
                                  ![t].pc = "determine_type"]
    /\ UNCHANGED <<sumVars, storeVars, call, classifier, returned>>

\* line 127: type_result = self._determine_type(query); its TypeError ends
\* the call
ThreadDetermineType(t) ==
    /\ threads[t].pc = "determine_type"
    /\ LET query_emb == Encode(threads[t].query)
           tsims == [k \in 1..NumTypes |-> Dot(query_emb, classifier.type_embeddings[k])]
           type_result == determine_type(tsims)
       IN  IF type_result.raised # "no"
           THEN Ends(t, [raised |-> type_result.raised])
           ELSE /\ threads' = [threads EXCEPT ![t].type_result = type_result,
                                              ![t].pc = "return"]
                /\ returned' = returned
    /\ UNCHANGED <<sumVars, storeVars, call, classifier>>

\* lines 130-144: the routing and the returned dict
ThreadReturn(t) ==
    /\ threads[t].pc = "return"
    /\ LET intents == threads[t].intents
           type_result == threads[t].type_result
       IN  Ends(t, [raised |-> "no",
                    value |->
                      [intents |-> intents,
                       entities |-> threads[t].entities,
                       category |-> type_result.category,
                       type |-> type_result.type,
                       type_name |-> type_result.type_name,
                       department |-> type_result.department,
                       confidence |-> type_result.confidence,
                       tags |-> Tags(intents),
                       routing |-> get_routing(intents, type_result.category),
                       primary_intent |-> PrimaryIntent(intents),
                       original_query |-> threads[t].query]])
    /\ UNCHANGED <<sumVars, storeVars, call, classifier>>

(***************************************************************************)
(* complaint_summarizer.py: the rate limiter and the ComplaintSummarizer.  *)
(* A cell of a database row is a Python value: its type, the form of its   *)
(* content and the content.                                                *)
(***************************************************************************)
\* latest second of the clock while the summarizer is called
MaxClock == 11

\* most calls of the summarizer in one behaviour
MaxSummaries == 2

\* line 47: @rate_limit(calls_per_minute=12)
calls_per_minute == 12

\* line 18: min_interval = 60.0 / calls_per_minute
min_interval == 60 \div calls_per_minute

IntCell(v) == [py |-> "int", form |-> "int", v |-> v]
StrCell(v) == [py |-> "str", form |-> "plain", v |-> v]
TextCell(v) == [py |-> "str", form |-> "text", v |-> v]
JsonCell(v) == [py |-> "str", form |-> "json", v |-> v]
DateTimeCell(v) == [py |-> "datetime", form |-> "datetime", v |-> v]
DictCell(v) == [py |-> "dict", form |-> "dict", v |-> v]

\* a == b of two cells
SameCell(a, b) == a.py = b.py /\ a.form = b.form /\ a.v = b.v

\* bool(cell)
Truthy(c) ==
    /\ c.py # "NoneType"
    /\ ~(c.form = "plain" /\ c.v = "")
    /\ ~(c.form = "int" /\ c.v = 0)

\* conversation_manager.py lines 196-200: a row of get_grievances as the
\* tuple of its SELECT list
RowTuple(row) ==
    << IntCell(row.id), StrCell(row.type), StrCell(row.department), TextCell(row.description),
       StrCell(row.status), DateTimeCell(row.created_at), JsonCell(row.extracted_entities),
       StrCell(row.name), StrCell(row.phone) >>

\* comp[k], counted from 0
Col(comp, k) == comp[k + 1]

\* line 88: strftime of a datetime, str() of anything else
DateOf(c) ==
    IF c.py = "datetime" THEN [py |-> "str", form |-> "strftime", v |-> c.v]
    ELSE [py |-> "str", form |-> "str()", v |-> c]

\* line 90: json.loads of a string that is not empty, else the value or {};
\* json.loads of a string that is not JSON raises
EntitiesOf(c) ==
    IF Truthy(c) /\ c.py = "str"
    THEN IF c.form = "json" THEN DictCell(c.v.json)
         ELSE [py |-> "JSONDecodeError", form |-> "raised", v |-> c.v]
    ELSE IF Truthy(c) THEN c ELSE DictCell(EmptyDict)

\* lines 79-91: the exception that the loop body raises for a row, if any
RowError(comp) ==
    IF Len(comp) < 9 THEN "IndexError"
    ELSE IF Truthy(Col(comp, 7)) /\ Col(comp, 7).py = "str" /\ Col(comp, 7).form # "json"
         THEN "JSONDecodeError"
         ELSE "no"

\* lines 82-91: the dict that the loop appends for a row
complaint_entry(comp) ==
    [id |-> Col(comp, 0), type |-> Col(comp, 1), priority |-> Col(comp, 3),
     description |-> Col(comp, 4), status |-> Col(comp, 5),
     date |-> DateOf(Col(comp, 6)), customer |-> Col(comp, 8),
     entities |-> EntitiesOf(Col(comp, 7))]

\* line 106: json.dumps(complaint_data[:20]) raises TypeError for a value
\* that is a datetime
Serializable(entry) ==
    \A k \in {"id", "type", "priority", "description", "status", "date", "customer"} :
        entry[k].py # "datetime"

\* round(count / total * 100, 1), in tenths of a percent
Percentage(count, total) ==
    LET q == (count * 1000) \div total
        r == (count * 1000) % total
    IN  IF 2 * r < total THEN q
        ELSE IF 2 * r > total THEN q + 1
        ELSE IF q % 2 = 0 THEN q ELSE q + 1

\* lines 160-186, _extract_key_issues: the types in descending order of their
\* number of rows, types of equal number in order of first appearance, and of
\* them the first five
extract_key_issues(complaint_data) ==
    LET n == Len(complaint_data)
        SameType(i, j) == SameCell(complaint_data[i].type, complaint_data[j].type)
        first == {i \in 1..n : \A j \in 1..(i - 1) : ~SameType(i, j)}
        count(i) == Cardinality({j \in 1..n : SameType(i, j)})
        sorted == CHOOSE o \in Orders(first) :
                    \A k \in 1..(Len(o) - 1) :
                        \/ count(o[k]) > count(o[k + 1])
                        \/ count(o[k]) = count(o[k + 1]) /\ o[k] < o[k + 1]
        top == IF Len(sorted) > 5 THEN 5 ELSE Len(sorted)
    IN  [k \in 1..top |->
            [issue |-> complaint_data[sorted[k]].type.v, count |-> count(sorted[k]),
             percentage |-> Percentage(count(sorted[k]), n)]]

\* lines 48-158, generate_summary.  model_ok is whether
\* self.model.generate_content returns; at is datetime.now().  called says
\* whether the model was called.
generate_summary(complaints, department, date_range, model_ok, at) ==
    LET n == Len(complaints)
        failing == {i \in 1..n : RowError(complaints[i]) # "no"}
        first_failing == CHOOSE i \in failing : \A j \in failing : i <= j
        complaint_data == [i \in 1..n |-> complaint_entry(complaints[i])]
        high_priority_count ==
            Cardinality({i \in 1..n : SameCell(Col(complaints[i], 3), StrCell("HIGH"))})
    IN  IF n = 0
        THEN [raised |-> "no", called |-> FALSE,
              value |-> [summary |-> <<"No complaints found for", department>>,
                         complaint_count |-> 0, high_priority_count |-> 0,
                         key_issues |-> << >>, generated_at |-> at]]
        ELSE IF failing # {}
        THEN [raised |-> RowError(complaints[first_failing]), called |-> FALSE]
        ELSE IF \E i \in 1..n : ~Serializable(complaint_data[i])
        THEN [raised |-> "TypeError", called |-> FALSE]
        ELSE IF model_ok
        THEN [raised |-> "no", called |-> TRUE,
              value |-> [summary |-> <<"response.text">>,
                         complaint_count |-> n,
                         high_priority_count |-> high_priority_count,
                         key_issues |-> extract_key_issues(complaint_data),
                         generated_at |-> at, department |-> department,
                         date_range |-> date_range]]
        ELSE [raised |-> "no", called |-> TRUE,
              value |-> [summary |-> <<"Error generating summary">>,
                         complaint_count |-> n,
                         high_priority_count |-> high_priority_count,
                         error |-> TRUE, error_message |-> "str(e)",
                         generated_at |-> at]]

\* the sum of the lengths of the lists of a mapping
RECURSIVE TotalComplaints(_, _)
TotalComplaints(data, depts) ==
    IF depts = {} THEN 0
    ELSE LET d == CHOOSE x \in depts : TRUE
         IN  Len(data[d]) + TotalComplaints(data, depts \ {d})

\* lines 188-253, generate_department_comparison
generate_department_comparison(all_departments_data, model_ok, at) ==
    LET depts == DOMAIN all_departments_data
        total_complaints == TotalComplaints(all_departments_data, depts)
        short == \E d \in depts : \E i \in 1..Len(all_departments_data[d]) :
                    Len(all_departments_data[d][i]) < 4
        dept_stats ==
            [d \in depts |->
                [total |-> Len(all_departments_data[d]),
                 high_priority |->
                    Cardinality({i \in 1..Len(all_departments_data[d]) :
                        SameCell(Col(all_departments_data[d][i], 3), StrCell("HIGH"))}),
                 percentage |-> Percentage(Len(all_departments_data[d]), total_complaints)]]
    IN  IF total_complaints = 0
        THEN [raised |-> "no", called |-> FALSE,
              value |-> [summary |-> <<"No complaints found across any department.">>,
                         total_complaints |-> 0, generated_at |-> at]]
        ELSE IF short
        THEN [raised |-> "IndexError", called |-> FALSE]
        ELSE IF model_ok
        THEN [raised |-> "no", called |-> TRUE,
              value |-> [summary |-> <<"response.text">>,
                         total_complaints |-> total_complaints,
                         department_stats |-> dept_stats, generated_at |-> at]]
        ELSE [raised |-> "no", called |-> TRUE,
              value |-> [summary |-> <<"Error generating comparison">>,
                         total_complaints |-> total_complaints, error |-> TRUE,
                         generated_at |-> at]]

\* rows as get_grievances returns them: the sample grievance of the migration
GrievanceRows ==
    << RowTuple([id |-> 1, type |-> "NETWORK_ISSUE", department |-> "Network Operations",
                 description |-> <<"User", "reported", "slow", "internet", "speed",
                                   "in", "their", "area">>,
                 status |-> "open", created_at |-> 0,
                 extracted_entities |-> JsonDumps([issue |-> "slow"]),
                 name |-> UserName(1), phone |-> PhoneOf(1)]) >>

\* rows in the layout of the comment of lines 74-77, that of table complaints:
\* complaint_id, complaint_type, department, priority, description, status,
\* created_at, extracted_entities, name, phone
ComplaintRow(complaint_id, complaint_type, priority) ==
    << IntCell(complaint_id), StrCell(complaint_type), StrCell("Network Operations"), StrCell(priority),
       TextCell(Q_down), StrCell("open"), DateTimeCell(0), JsonCell(JsonDumps(EmptyDict)),
       StrCell(UserName(1)), StrCell(PhoneOf(1)) >>

ComplaintRows ==
    << ComplaintRow(1, "NETWORK_ISSUE", "HIGH"), ComplaintRow(2, "NETWORK_ISSUE", "MEDIUM") >>

\* the lists of rows that callers hand to generate_summary
SummaryInputs == { << >>, GrievanceRows, ComplaintRows }

\* the mappings that callers hand to generate_department_comparison
ComparisonInputs ==
    { [d \in {"Network Operations"} |-> << >>],
      [d \in {"Network Operations"} |-> GrievanceRows] }

SummaryDateRange == [start |-> 0, end |-> 0]

IdleSummarizer == [pc |-> "idle", calls |-> 0]

\* calls of the summarizer begun so far
SummariesStarted == summarizing[1].calls + summarizing[2].calls

\* lines 23-25, the wrapper of rate_limit up to the test of elapsed: a thread
\* calls generate_summary and reads the clock and last_called[0]
SummaryCall(t) ==
    /\ summarizing[t].pc = "idle"
    /\ SummariesStarted < MaxSummaries
    /\ \E complaints \in SummaryInputs :
          LET elapsed == now - last_called
          IN  summarizing' = [summarizing EXCEPT ![t] =
                  [pc |-> IF elapsed < min_interval THEN "sleep" ELSE "stamp",
                   complaints |-> complaints,
                   wake |-> now + (min_interval - elapsed),
                   calls |-> summarizing[t].calls + 1]]
    /\ UNCHANGED <<storeVars, clsVars, last_called, entered, gemini, page>>

\* line 26: time.sleep(min_interval - elapsed) returns
SummarySleep(t) ==
    /\ summarizing[t].pc = "sleep"
    /\ now >= summarizing[t].wake
    /\ summarizing' = [summarizing EXCEPT ![t].pc = "stamp"]
    /\ UNCHANGED <<storeVars, clsVars, last_called, entered, gemini, page>>

\* lines 27-28: last_called[0] = time.time() and the call of func
SummaryEnter(t) ==
    /\ summarizing[t].pc = "stamp"
    /\ last_called' = now
    /\ entered' = Append(entered, [thread |-> t, at |-> now])
    /\ summarizing' = [summarizing EXCEPT ![t] =
            [pc |-> "body", complaints |-> summarizing[t].complaints,
             entry |-> Len(entered'), calls |-> summarizing[t].calls]]
    /\ UNCHANGED <<storeVars, clsVars, gemini, page>>

\* the body of generate_summary, to its return or its exception
SummaryReturn(t) ==
    /\ summarizing[t].pc = "body"
    /\ \E model_ok \in BOOLEAN :
          LET r == generate_summary(summarizing[t].complaints, "All Departments",
                                    SummaryDateRange, model_ok, now)
          IN  /\ gemini' = IF r.called
                           THEN Append(gemini, [fn |-> "generate_summary", thread |-> t,
                                                entry |-> summarizing[t].entry])
                           ELSE gemini
              /\ summarizing' = [summarizing EXCEPT ![t] =
                     [pc |-> "idle", calls |-> summarizing[t].calls,
                      fn |-> "generate_summary",
                      complaints |-> summarizing[t].complaints, ret |-> r]]
    /\ UNCHANGED <<storeVars, clsVars, last_called, entered, page>>

\* a call of generate_department_comparison, which has no decorator
DepartmentComparison(t) ==
    /\ summarizing[t].pc = "idle"
    /\ SummariesStarted < MaxSummaries
    /\ \E data \in ComparisonInputs, model_ok \in BOOLEAN :
          LET r == generate_department_comparison(data, model_ok, now)
          IN  /\ gemini' = IF r.called
                           THEN Append(gemini, [fn |-> "generate_department_comparison",
                                                thread |-> t, entry |-> 0])
                           ELSE gemini
              /\ summarizing' = [summarizing EXCEPT ![t] =
                     [pc |-> "idle", calls |-> summarizing[t].calls + 1,
                      fn |-> "generate_department_comparison", ret |-> r]]
    /\ UNCHANGED <<storeVars, clsVars, last_called, entered, page>>

\* one second passes
TimePasses ==
    /\ now < MaxClock
    /\ now' = now + 1
    /\ UNCHANGED <<conversations, queries, grievances, op, session, turn, nops,
                   clsVars, sumVars>>

(***************************************************************************)
(* pages/2_Grievance_Dashboard.py: one session of the dashboard.  A date   *)
(* is a number of days, today being 0.                                     *)
(***************************************************************************)
SecondsPerDay == 86400

\* datetime.combine(date, datetime.min.time()), in seconds
DayStart(date) == date * SecondsPerDay

\* datetime.combine(date, datetime.max.time()), in seconds
DayEnd(date) == date * SecondsPerDay + (SecondsPerDay - 1)

\* options of the Department selectbox
DashboardDepartments == {"All Departments", "Network Operations", "Billing Department"}

\* values of the two date inputs: the default, the last 30 days to today,
\* and a range that ends yesterday
DateRanges == { <<-30, 0>>, <<-30, -1>> }

\* options of the Status selectbox
StatusFilters == {"all", "open", "closed"}

\* line 352: f"{selected_dept}_{start_date}_{end_date}_{len(grievances)}"
cache_key(selected_dept, start_date, end_date, grievances_fetched) ==
    <<selected_dept, start_date, end_date, Len(grievances_fetched)>>

\* lines 283-389, one run of the script.  generate is whether the Generate
\* Summary button was pressed.  The run fetches the grievances of the filter
\* selection; with the button it calls generate_summary through the rate
\* limiter, which sleeps until min_interval after last_called[0], and stores
\* the result under the cache key; an exception of generate_summary ends the
\* run.  Then it displays the entry of the cache key, if there is one without
\* error.  summary_inputs keeps, for each entry, the status filter and the
\* rows of the run that stored it.
DashboardRun(selected_dept, start_date, end_date, status_filter, generate, model_ok) ==
    LET dept_filter == IF selected_dept = "All Departments" THEN None ELSE Some(selected_dept)
        status == IF status_filter = "all" THEN None ELSE Some(status_filter)
        start == Some(DayStart(start_date))
        end == Some(DayEnd(end_date))
    IN  \E fetched \in get_grievances(dept_filter, start, end, status) :
          LET key == cache_key(selected_dept, start_date, end_date, fetched)
              cache == Get(page, "summary_cache", EmptyDict)
              inputs == Get(page, "summary_inputs", EmptyDict)
              elapsed == now - last_called
              at == IF elapsed < min_interval THEN last_called + min_interval ELSE now
              r == generate_summary([i \in 1..Len(fetched) |-> RowTuple(fetched[i])],
                                    selected_dept,
                                    [start |-> DayStart(start_date), end |-> DayEnd(end_date)],
                                    model_ok, at)
              stored == generate /\ r.raised = "no"
              cache1 == IF stored
                        THEN With(cache, key, [result |-> r.value, time |-> at])
                        ELSE cache
              shown == IF generate /\ r.raised # "no" THEN << >>
                       ELSE IF key \in DOMAIN cache1
                               /\ ~Get(cache1[key].result, "error", FALSE)
                            THEN <<cache1[key].result>>
                            ELSE << >>
          IN  /\ op' = [name |-> "get_grievances", outcome |-> "returned",
                        department |-> dept_filter, start_date |-> start,
                        end_date |-> end, status |-> status, ret |-> fetched]
              /\ page' = [selected_dept |-> selected_dept, start_date |-> start_date,
                          end_date |-> end_date, status_filter |-> status_filter,
                          grievances |-> fetched,
                          summary_cache |-> cache1,
                          summary_inputs |->
                              IF stored
                              THEN With(inputs, key, [status_filter |-> status_filter,
                                                      grievances |-> fetched])
                              ELSE inputs,
                          raised |-> IF generate THEN r.raised ELSE "no",
                          displayed |-> shown]
              /\ IF generate
                 THEN /\ now' = at
                      /\ last_called' = at
                      /\ entered' = Append(entered, [thread |-> 1, at |-> at])
                      /\ gemini' = IF r.called
                                   THEN Append(gemini, [fn |-> "generate_summary",
                                                        thread |-> 1,
                                                        entry |-> Len(entered')])
                                   ELSE gemini
                 ELSE UNCHANGED <<now, last_called, entered, gemini>>
              /\ UNCHANGED <<clsVars, conversations, queries, grievances, session, turn,
                             nops, summarizing>>

\* the page is opened, or a filter widget is changed
ViewDashboard ==
    \E selected_dept \in DashboardDepartments, range \in DateRanges,
       status_filter \in StatusFilters :
        DashboardRun(selected_dept, range[1], range[2], status_filter, FALSE, FALSE)

\* the Generate Summary button of the page as it is displayed
GenerateSummary ==
    /\ page # EmptyDict
    /\ Len(entered) < MaxSummaries
    /\ \E model_ok \in BOOLEAN :
          DashboardRun(page.selected_dept, page.start_date, page.end_date,
                       page.status_filter, TRUE, model_ok)

(***************************************************************************)
(* Specifications                                                          *)
(***************************************************************************)
Init ==
    /\ call = NoCall
    /\ conversations = << >>
    /\ queries = << >>
    /\ grievances = << >>
    /\ op = NoOp
    /\ session = [user_id |-> 1, phone |-> PhoneOf(1), last_classification |-> EmptyDict]
    /\ turn = Idle("none")
    /\ nops = 0
    /\ now = 0
    /\ classifier = InitialClassifier
    /\ threads = [t \in Threads |-> IdleThread]
    /\ returned = << >>
    /\ last_called = 0
    /\ summarizing = [t \in Threads |-> IdleSummarizer]
    /\ entered = << >>
    /\ gemini = << >>
    /\ page = EmptyDict

\* the store and its callers
Next == SaveConversation \/ CreateRecord \/ TurnSave \/ TurnCreate

Spec == Init /\ [][Next]_vars

\* calls on one TicketClassifier
NextClassifier == DetectIntents \/ DetermineType \/ ExtractEntities \/ GetRouting \/ ClassifyQuery

SpecClassifier == Init /\ [][NextClassifier]_vars

\* classify_query calls of several threads on one TicketClassifier, their
\* steps interleaved
NextConcurrent ==
    \E t \in Threads :
        \/ ThreadBegin(t)
        \/ ThreadDetectIntents(t)
        \/ ThreadExtractEntities(t)
        \/ ThreadDetermineType(t)
        \/ ThreadReturn(t)

SpecConcurrent == Init /\ [][NextConcurrent]_vars

\* a new browser session of app.py: st.session_state is empty
InitSession ==
    /\ call = NoCall
    /\ conversations = << >>
    /\ queries = << >>
    /\ grievances = << >>
    /\ op = NoOp
    /\ session = EmptyDict
    /\ turn = Idle("none")
    /\ nops = 0
    /\ now = 0
    /\ classifier = InitialClassifier
    /\ threads = [t \in Threads |-> IdleThread]
    /\ returned = << >>
    /\ last_called = 0
    /\ summarizing = [t \in Threads |-> IdleSummarizer]
    /\ entered = << >>
    /\ gemini = << >>
    /\ page = EmptyDict

NextSession == FirstRun \/ Login \/ Logout \/ SubmitQuery \/ TurnCreate

SpecSession == InitSession /\ [][NextSession]_vars

\* a process in which no summary has been generated yet; time.time() is
\* past min_interval
InitSummarizer ==
    /\ call = NoCall
    /\ conversations = << >>
    /\ queries = << >>
    /\ grievances = << >>
    /\ op = NoOp
    /\ session = EmptyDict
    /\ turn = Idle("none")
    /\ nops = 0
    /\ now = min_interval
    /\ classifier = InitialClassifier
    /\ threads = [t \in Threads |-> IdleThread]
    /\ returned = << >>
    /\ last_called = 0
    /\ summarizing = [t \in Threads |-> IdleSummarizer]
    /\ entered = << >>
    /\ gemini = << >>
    /\ page = EmptyDict

\* calls of several threads on the ComplaintSummarizer of one process
NextSummarizer ==
    \/ TimePasses
    \/ \E t \in Threads :
          \/ SummaryCall(t)
          \/ SummarySleep(t)
          \/ SummaryEnter(t)
          \/ SummaryReturn(t)
          \/ DepartmentComparison(t)

SpecSummarizer == InitSummarizer /\ [][NextSummarizer]_vars

\* the Grievance Dashboard over the store that the migration has filled
NextDashboard == Migrate \/ ViewDashboard \/ GenerateSummary

SpecDashboard == InitSummarizer /\ [][NextDashboard]_vars

\* the store filled by the migration and by callers of the inserts, and read
\* by the dashboards
NextReads ==
    \/ Tick \/ Migrate \/ PopulateSave \/ PopulateCreate
    \/ GetQueries \/ GetGrievances \/ GetQueryStats \/ GetGrievanceStats

SpecReads == Init /\ [][NextReads]_vars

(***************************************************************************)
(* Properties                                                              *)
(***************************************************************************)
\* this step is a call of the store method of that name
StoreStep(name) == nops' = nops + 1 /\ op'.name = name

\* new is old with one row appended
Appended(old, new) == Len(new) = Len(old) + 1 /\ SubSeq(new, 1, Len(old)) = old

Last(table) == table[Len(table)]

\* a classifier call that returned a list of intents, and that list
ReturnedIntents ==
    \/ call.fn = "_detect_intents"
    \/ call.fn = "classify_query" /\ call.ret.raised = "no"

IntentsOfCall == IF call.fn = "_detect_intents" THEN call.ret ELSE call.ret.value.intents

\* position of a label in the intent catalog
CatalogIndex(label) == CHOOSE k \in 1..NumIntents : IntentLabels[k] = label

\* similarity of the query of the call and the intent of that label
SimilarityOf(label) == call.isims[CatalogIndex(label)]

TypeKeys ==
    {QUERY_TYPES[i].key : i \in 1..Len(QUERY_TYPES)}
    \cup {GRIEVANCE_TYPES[i].key : i \in 1..Len(GRIEVANCE_TYPES)}

\* C1: a create_record that returns, called with category GRIEVANCE, appends
\* one row with status open to grievances and leaves queries alone; called
\* with category QUERY, it appends one row with status resolved to queries
\* and leaves grievances alone.
C1_RecordFollowsCategory ==
    [][ (/\ StoreStep("create_record")
         /\ op'.outcome = "returned"
         /\ "category" \in DOMAIN op'.classification_result)
        => LET category == op'.classification_result.category
           IN  /\ category = "GRIEVANCE" =>
                     /\ Appended(grievances, grievances')
                     /\ Last(grievances').status = "open"
                     /\ queries' = queries
               /\ category = "QUERY" =>
                     /\ Appended(queries, queries')
                     /\ Last(queries').status = "resolved"
                     /\ grievances' = grievances ]_vars

\* C1 witness: create_record has returned for a GRIEVANCE classification and
\* for a QUERY classification
C1_Witness ==
    /\ op.name = "create_record" /\ op.outcome = "returned"
    /\ Get(op.classification_result, "category", "absent") = "GRIEVANCE"
    /\ \E i \in 1..Len(grievances) : grievances[i].status = "open"
    /\ \E i \in 1..Len(queries) : queries[i].status = "resolved"

\* C2: every classify_query call returns a result, and the type of the result
\* is a key of QUERY_TYPES or GRIEVANCE_TYPES.
C2_TypeAlwaysResolved ==
    call.fn = "classify_query" =>
        /\ call.ret.raised = "no"
        /\ call.ret.value.type \in TypeKeys

\* C3: the returned intents are exactly the catalog intents whose similarity
\* is at least 0.25, each once, in non-increasing order of confidence.
C3_IntentsAtThreshold ==
    ReturnedIntents =>
        LET intents == IntentsOfCall
        IN  /\ {intents[i].label : i \in 1..Len(intents)}
                 = {IntentLabels[k] : k \in {j \in 1..NumIntents : call.isims[j] >= 250}}
            /\ \A i, j \in 1..Len(intents) : i # j => intents[i].label # intents[j].label
            /\ \A i \in 1..Len(intents) - 1 : intents[i].confidence >= intents[i + 1].confidence

\* C3 witness: an intent at exactly 0.25 is kept, one at 0.249 is absent, and
\* another intent is returned with it
C3_Witness ==
    /\ ReturnedIntents
    /\ Len(IntentsOfCall) >= 2
    /\ \E k \in 1..NumIntents :
          /\ call.isims[k] = 250
          /\ \E i \in 1..Len(IntentsOfCall) : IntentsOfCall[i].label = IntentLabels[k]
    /\ \E k \in 1..NumIntents :
          /\ call.isims[k] = 249
          /\ \A i \in 1..Len(IntentsOfCall) : IntentsOfCall[i].label # IntentLabels[k]

\* C4 as claimed: the returned intents are in descending order of cosine
\* similarity, and intents of equal similarity are in catalog order.
C4_OrderedBySimilarity ==
    ReturnedIntents =>
        \A i, j \in 1..Len(IntentsOfCall) : i < j =>
            LET a == IntentsOfCall[i].label
                b == IntentsOfCall[j].label
            IN  \/ SimilarityOf(a) > SimilarityOf(b)
                \/ SimilarityOf(a) = SimilarityOf(b) /\ CatalogIndex(a) < CatalogIndex(b)

\* C4 amended: the returned intents are in descending order of their reported
\* confidence (the similarity rounded to two decimals), and intents of equal
\* confidence are in catalog order.
C4_OrderedByConfidence ==
    ReturnedIntents =>
        \A i, j \in 1..Len(IntentsOfCall) : i < j =>
            LET a == IntentsOfCall[i]
                b == IntentsOfCall[j]
            IN  \/ a.confidence > b.confidence
                \/ a.confidence = b.confidence /\ CatalogIndex(a.label) < CatalogIndex(b.label)

\* C4 witness: two returned intents have one confidence and different
\* similarities, the one of lower similarity first, and a third intent of
\* higher confidence precedes them
C4_Witness ==
    /\ ReturnedIntents
    /\ \E i, j \in 1..Len(IntentsOfCall) :
          /\ i < j
          /\ IntentsOfCall[i].confidence = IntentsOfCall[j].confidence
          /\ SimilarityOf(IntentsOfCall[i].label) < SimilarityOf(IntentsOfCall[j].label)
    /\ \E i \in 1..Len(IntentsOfCall) :
          /\ IntentsOfCall[1].confidence > IntentsOfCall[i].confidence
          /\ CatalogIndex(IntentsOfCall[1].label) > CatalogIndex(IntentsOfCall[i].label)

\* C5: every conversation is referred to by at most one row of queries and
\* grievances together, and that row is in the table of the category stored
\* on the conversation.
C5_OneRecordPerConversation ==
    \A i \in 1..Len(conversations) :
        LET conversation_id == conversations[i].conversation_id
            nq == Cardinality(RecordsOf(queries, conversation_id))
            ng == Cardinality(RecordsOf(grievances, conversation_id))
        IN  /\ nq + ng <= 1
            /\ ng = 1 => conversations[i].category = "GRIEVANCE"
            /\ nq = 1 => conversations[i].category # "GRIEVANCE"

\* C6: a create_record whose INSERT succeeds returns, appends exactly one row
\* to exactly one of queries and grievances, and returns the id of that row,
\* an id no earlier row of the table has.
C6_AlwaysOneRecord ==
    [][ (StoreStep("create_record") /\ op'.statement = "executed")
        => /\ op'.outcome = "returned"
           /\ op'.ret \in Nat \ {0}
           /\ conversations' = conversations
           /\ \/ /\ queries' = queries
                 /\ Appended(grievances, grievances')
                 /\ Last(grievances').id = op'.ret
                 /\ \A i \in 1..Len(grievances) : grievances[i].id # op'.ret
              \/ /\ grievances' = grievances
                 /\ Appended(queries, queries')
                 /\ Last(queries').id = op'.ret
                 /\ \A i \in 1..Len(queries) : queries[i].id # op'.ret ]_vars

\* C6 witness: create_record has returned for a classification without a
\* category key whose primary intent is NETWORK_ISSUE, and a record exists
\* for a classification whose primary intent is BALANCE_QUERY
C6_Witness ==
    /\ op.name = "create_record" /\ op.outcome = "returned"
    /\ "category" \notin DOMAIN op.classification_result
    /\ op.classification_result.primary_intent = "NETWORK_ISSUE"
    /\ Len(queries) >= 2
    /\ \E i \in 1..Len(queries) : queries[i].type = "Balance Check"

\* C7: when the INSERT of save_conversation or create_record raises, the call
\* raises and conversations, queries and grievances are as before the call.
C7_StorageErrorPropagates ==
    [][ (nops' = nops + 1 /\ op'.statement = "raised")
        => /\ op'.outcome = "raised"
           /\ conversations' = conversations
           /\ queries' = queries
           /\ grievances' = grievances ]_vars

\* C7 witness: create_record has raised on tables that hold rows
C7_Witness ==
    /\ op.name = "create_record" /\ op.statement = "raised" /\ op.outcome = "raised"
    /\ Len(conversations) >= 1
    /\ Len(queries) + Len(grievances) >= 1

\* C8: when the create_record of a turn raises after its save_conversation
\* has committed, the conversation row stays and the step adds no record.
C8_ConversationOutlivesFailedRecord ==
    [][ (turn.pc = "create_record" /\ turn'.pc = "idle" /\ op'.outcome = "raised")
        => /\ conversations' = conversations
           /\ \E i \in 1..Len(conversations') :
                 conversations'[i].conversation_id = turn.conv_id
           /\ queries' = queries
           /\ grievances' = grievances ]_vars

\* C8 witness: a turn has ended with create_record raising, and its
\* conversation is stored with no record referring to it
C8_Witness ==
    /\ turn.pc = "idle" /\ turn.failed_at = "create_record"
    /\ op.name = "create_record" /\ op.outcome = "raised"
    /\ ConversationExists(op.conversation_id)
    /\ RecordsOf(queries, op.conversation_id) = {}
    /\ RecordsOf(grievances, op.conversation_id) = {}

\* the routing table of the claim
ExpectedRouting(primary_intent) ==
    CASE primary_intent \in {"NETWORK_ISSUE", "TECHNICAL_SUPPORT"} -> "technical_support"
      [] primary_intent = "BILLING_COMPLAINT" -> "billing_team"
      [] primary_intent \in {"RECHARGE_REQUEST", "BALANCE_QUERY"} -> "automated_system"
      [] primary_intent \in {"PLAN_CHANGE", "OFFER_INQUIRY"} -> "sales_team"
      [] primary_intent = "SUPPORT_REQUEST" -> "customer_support"
      [] OTHER -> "general_support"

\* C9: the routing is the entry of the routing table for the label of the
\* first intent, and general_support when there is no intent or the label
\* has no entry, whatever the category.
C9_RoutingByPrimaryIntent ==
    /\ call.fn = "_get_routing" =>
          call.ret = ExpectedRouting(IF call.intents = << >> THEN "UNKNOWN"
                                     ELSE call.intents[1].label)
    /\ (call.fn = "classify_query" /\ call.ret.raised = "no") =>
          call.ret.value.routing =
              ExpectedRouting(IF call.ret.value.intents = << >> THEN "UNKNOWN"
                              ELSE call.ret.value.intents[1].label)

\* C9 witness: a GRIEVANCE without intents has been routed to general_support
C9_Witness ==
    /\ call.fn = "_get_routing"
    /\ call.category = "GRIEVANCE"
    /\ call.intents = << >>
    /\ call.ret = "general_support"

\* C10: tags are the labels of intents in order, primary_intent is the first
\* tag when there is one, and it is UNKNOWN exactly when no similarity
\* reaches 0.25, and then tags is empty.
C10_TagsAndPrimaryIntent ==
    (call.fn = "classify_query" /\ call.ret.raised = "no") =>
        LET v == call.ret.value
            none == \A k \in 1..NumIntents : call.isims[k] < 250
        IN  /\ Len(v.tags) = Len(v.intents)
            /\ \A i \in 1..Len(v.tags) : v.tags[i] = v.intents[i].label
            /\ v.tags # << >> => v.primary_intent = v.tags[1]
            /\ v.primary_intent = "UNKNOWN" <=> none
            /\ none => v.tags = << >>

\* C10 witness: a classification with several tags whose first and last
\* differ
C10_Witness ==
    /\ call.fn = "classify_query" /\ call.ret.raised = "no"
    /\ Len(call.ret.value.tags) >= 2
    /\ call.ret.value.tags[1] # call.ret.value.tags[Len(call.ret.value.tags)]
    /\ call.ret.value.primary_intent = call.ret.value.tags[1]

\* a classifier call that returned a resolved type, and the record holding it
ReturnedType ==
    \/ call.fn = "_determine_type" /\ call.ret.raised = "no"
    \/ call.fn = "classify_query" /\ call.ret.raised = "no"

TypeOfCall == IF call.fn = "_determine_type" THEN call.ret ELSE call.ret.value

QueryKeys == {QUERY_TYPES[i].key : i \in 1..Len(QUERY_TYPES)}
GrievanceKeys == {GRIEVANCE_TYPES[i].key : i \in 1..Len(GRIEVANCE_TYPES)}

\* C11: in every returned classification, category is GRIEVANCE exactly when
\* type is a key of GRIEVANCE_TYPES and QUERY exactly when it is a key of
\* QUERY_TYPES, and type_name and department are the name and the department
\* of the catalog entry of that key.
C11_OneCatalogEntry ==
    ReturnedType =>
        LET r == TypeOfCall
        IN  /\ r.category = "GRIEVANCE" <=> r.type \in GrievanceKeys
            /\ r.category = "QUERY" <=> r.type \in QueryKeys
            /\ r.category \in {"QUERY", "GRIEVANCE"}
            /\ \A i \in 1..Len(QUERY_TYPES) : QUERY_TYPES[i].key = r.type =>
                    /\ r.type_name = QUERY_TYPES[i].name
                    /\ r.department = QUERY_TYPES[i].department
            /\ \A i \in 1..Len(GRIEVANCE_TYPES) : GRIEVANCE_TYPES[i].key = r.type =>
                    /\ r.type_name = GRIEVANCE_TYPES[i].name
                    /\ r.department = GRIEVANCE_TYPES[i].department

\* C11 witness: classify_query has returned a grievance type of the Billing
\* Department
C11_Witness ==
    /\ call.fn = "classify_query" /\ call.ret.raised = "no"
    /\ call.ret.value.category = "GRIEVANCE"
    /\ call.ret.value.type = "UNWANTED_CHARGES"
    /\ call.ret.value.type_name = "Unauthorized Charges"
    /\ call.ret.value.department = "Billing Department"

\* C12: every _determine_type call returns a catalog entry whose similarity
\* is at least that of every other entry, whatever the similarities are, and
\* of the entries of highest similarity it returns the earliest in catalog
\* order.
C12_UnconditionalArgMax ==
    call.fn = "_determine_type" =>
        /\ call.ret.raised = "no"
        /\ \E m \in 1..NumTypes :
              /\ call.ret.type = type_embeddings[m].type
              /\ \A i \in 1..NumTypes : call.tsims[m] >= call.tsims[i]
              /\ \A i \in 1..(m - 1) : call.tsims[i] < call.tsims[m]

\* what classify_query returns for a text when no other call is made
Alone(query) == classify_query(query, Encode(query).isims, Encode(query).tsims)

\* C13: two classify_query calls with the same query end alike, with equal
\* results in every field, whichever calls were made in between.
C13_SameQuerySameResult ==
    \A i, j \in 1..Len(returned) :
        returned[i].query = returned[j].query => returned[i].ret = returned[j].ret

\* C13 witness: a query was classified, then another query, then the first
\* one again, with a result each time
C13_Witness ==
    \E i, j, k \in 1..Len(returned) :
        /\ i < j /\ j < k
        /\ returned[i].query = returned[k].query
        /\ returned[j].query # returned[i].query
        /\ returned[i].ret.raised = "no"
        /\ returned[j].ret.raised = "no"
        /\ returned[j].ret.value.entities # returned[i].ret.value.entities
        /\ returned[k].ret = returned[i].ret

\* C14: no classify_query step changes the embeddings built at
\* initialization, and every call, whatever steps of other calls come between
\* its own, ends as it does when it runs alone.
C14_ReadOnlyClassifier ==
    /\ classifier = InitialClassifier
    /\ \A i \in 1..Len(returned) : returned[i].ret = Alone(returned[i].query)

\* C14 witness: two threads have each returned a result while the other was
\* inside classify_query with another query
C14_Witness ==
    \E i, j \in 1..Len(returned) :
        /\ returned[i].thread # returned[j].thread
        /\ returned[i].concurrent /\ returned[j].concurrent
        /\ returned[i].query # returned[j].query
        /\ returned[i].ret.raised = "no" /\ returned[j].ret.raised = "no"

\* the last store call is a list read; the table it reads
ListRead == op.name \in {"get_queries", "get_grievances"}

TableRead == IF op.name \in {"get_queries", "get_query_stats"} THEN queries ELSE grievances

\* the stored row satisfies every filter the call was given
Satisfies(row) ==
    /\ op.department # None => row.department = op.department[1]
    /\ op.status # None => row.status = op.status[1]
    /\ op.start_date # None => row.created_at >= op.start_date[1]
    /\ op.end_date # None => row.created_at <= op.end_date[1]

\* this step is a read of the store
ReadStep == op' # op /\ op'.name \in ReadNames

\* the rows returned by the list read are the rows its filters select, in
\* non-increasing order of created_at
ReturnsSelected ==
    ListRead =>
        LET table == TableRead
            matching == {i \in 1..Len(table) : Satisfies(table[i])}
        IN  /\ Len(op.ret) = Cardinality(matching)
            /\ \A i \in matching : \E k \in 1..Len(op.ret) :
                    /\ op.ret[k].id = table[i].id
                    /\ op.ret[k].department = table[i].department
                    /\ op.ret[k].status = table[i].status
                    /\ op.ret[k].created_at = table[i].created_at
                    /\ op.ret[k].description = table[i].description
            /\ \A k \in 1..Len(op.ret) : \E i \in matching : op.ret[k].id = table[i].id
            /\ \A k \in 1..(Len(op.ret) - 1) : op.ret[k].created_at >= op.ret[k + 1].created_at

\* C15: get_queries and get_grievances return the stored rows that satisfy
\* every filter given, each once and no other row, a filter not given
\* restricting nothing, in non-increasing order of created_at.
C15_FilteredReads == [][ReadStep => ReturnsSelected']_vars

\* C15 witness: get_grievances with department Network Operations and status
\* open has returned two rows created at different times, from a table that
\* also holds a row of another department and a Network Operations row of
\* another status
C15_Witness ==
    /\ op.name = "get_grievances"
    /\ op.department = Some("Network Operations") /\ op.status = Some("open")
    /\ Len(op.ret) >= 2
    /\ op.ret[1].created_at > op.ret[Len(op.ret)].created_at
    /\ \E i \in 1..Len(grievances) : grievances[i].department # "Network Operations"
    /\ \E i \in 1..Len(grievances) :
          /\ grievances[i].department = "Network Operations"
          /\ grievances[i].status # "open"

\* the rows that the conditions on department and dates of the call select
Scoped ==
    {i \in 1..Len(TableRead) :
        /\ op.department # None => TableRead[i].department = op.department[1]
        /\ op.start_date # None => TableRead[i].created_at >= op.start_date[1]
        /\ op.end_date # None => TableRead[i].created_at <= op.end_date[1]}

InStatus(s) == Cardinality({i \in Scoped : TableRead[i].status = s})

\* the counts returned by the statistics read are those of the rows that the
\* list read with the same department and dates returns
CountsSelected ==
    /\ op.name = "get_query_stats" =>
          /\ \A rows \in get_queries(op.department, op.start_date, op.end_date, None) :
                /\ op.ret.total = Len(rows)
                /\ op.ret.pending = Cardinality({k \in 1..Len(rows) : rows[k].status = "pending"})
                /\ op.ret.resolved = Cardinality({k \in 1..Len(rows) : rows[k].status = "resolved"})
          /\ op.ret.total = Cardinality(Scoped)
          /\ op.ret.pending = InStatus("pending")
          /\ op.ret.resolved = InStatus("resolved")
          /\ op.ret.total = op.ret.pending + op.ret.resolved
    /\ op.name = "get_grievance_stats" =>
          /\ \A rows \in get_grievances(op.department, op.start_date, op.end_date, None) :
                /\ op.ret.total = Len(rows)
                /\ \A s \in {"open", "in_progress", "resolved", "closed"} :
                      op.ret[s] = Cardinality({k \in 1..Len(rows) : rows[k].status = s})
          /\ op.ret.total = Cardinality(Scoped)
          /\ \A s \in {"open", "in_progress", "resolved", "closed"} : op.ret[s] = InStatus(s)
          /\ op.ret.total = op.ret.open + op.ret.in_progress + op.ret.resolved + op.ret.closed

\* C16: the statistics count the rows that the list read with the same
\* department and dates returns: total is their number, each status count
\* the number of them in that status, total the sum of the status counts,
\* and every count is 0 when there is no such row.
C16_StatsMatchReads == [][ReadStep => CountsSelected']_vars

\* C16 witness: get_grievance_stats for Network Operations has counted an
\* open and an in_progress grievance and left out a row of another
\* department
C16_Witness ==
    /\ op.name = "get_grievance_stats"
    /\ op.department = Some("Network Operations")
    /\ op.ret.open >= 1 /\ op.ret.in_progress >= 1
    /\ op.ret.total = op.ret.open + op.ret.in_progress
    /\ op.ret.total < Len(grievances)

EntityKeys == {"amount", "service", "issue", "plan_name", "timeframe"}

\* some run of tokens of the text is one of the phrases, letter case aside
Mentions(text, phrases) ==
    \E i \in 1..Len(text), ph \in phrases : MatchAt(text, i, ph)

ServicePhrases ==
    { <<"data">>, <<"internet">>, <<"call">>, <<"sms">>, <<"roaming">>, <<"network">>,
      <<"hotspot">>, <<"wifi">> }

IssuePhrases ==
    { <<"slow">>, <<"not", "working">>, <<"stopped">>, <<"failed">>, <<"down">>,
      <<"problem">>, <<"issue">>, <<"nahi", "chal", "raha">>, <<"band">> }

CarrierPhrases == { <<"jio">>, <<"airtel">>, <<"vi">>, <<"vodafone">>, <<"bsnl">> }

TimePhrases ==
    { <<"today">>, <<"yesterday">>, <<"last", "week">>, <<"since", "morning">>,
      <<"this", "month">>, <<"aaj">>, <<"kal">> }

\* the phrase as one string
Spoken(ph) ==
    IF Len(ph) = 1 THEN ph[1]
    ELSE IF Len(ph) = 2 THEN ph[1] \o " " \o ph[2]
    ELSE ph[1] \o " " \o ph[2] \o " " \o ph[3]

\* the currency patterns that match the text
MoneyPatternsMatching(text) ==
    {p \in 1..4 : \E i \in 1..Len(text) : MoneyMatch(text, p, i)}

\* C17: the extraction returns a mapping whose keys are among amount,
\* service, issue, plan_name and timeframe, a key being present exactly when
\* its pattern matches the text and then with one value; and the entities of
\* a classification are those of its query text, whatever intents and type
\* the similarities give.
C17_EntitiesByPatternOnly ==
    /\ call.fn = "_extract_entities_regex" =>
          LET e == call.ret
              text == call.query
          IN  /\ DOMAIN e \subseteq EntityKeys
              /\ "amount" \in DOMAIN e <=> MoneyPatternsMatching(text) # {}
              /\ "service" \in DOMAIN e <=> Mentions(text, ServicePhrases)
              /\ "issue" \in DOMAIN e <=> Mentions(text, IssuePhrases)
              /\ "plan_name" \in DOMAIN e <=> Mentions(text, CarrierPhrases)
              /\ "timeframe" \in DOMAIN e <=> Mentions(text, TimePhrases)
              /\ "amount" \in DOMAIN e => e.amount \in DigitTokens
              /\ "service" \in DOMAIN e => e.service \in {Spoken(ph) : ph \in ServicePhrases}
              /\ "issue" \in DOMAIN e => e.issue \in {Spoken(ph) : ph \in IssuePhrases}
              /\ "timeframe" \in DOMAIN e => e.timeframe \in {Spoken(ph) : ph \in TimePhrases}
              /\ "plan_name" \in DOMAIN e => <<Lower(e.plan_name[1])>> \in CarrierPhrases
    /\ (call.fn = "classify_query" /\ call.ret.raised = "no") =>
          call.ret.value.entities = extract_entities_regex(call.query)

\* C17 witness: a classification without any intent holds the amount, the
\* service and the issue of its text and no other entity
C17_Witness ==
    /\ call.fn = "classify_query" /\ call.ret.raised = "no"
    /\ call.ret.value.intents = << >>
    /\ DOMAIN call.ret.value.entities = {"amount", "service", "issue"}

\* C18: when several currency patterns match a text, amount is the digits
\* of the leftmost match of the first of them in the order of the pattern
\* list, wherever the other patterns match.
C18_FirstPatternWins ==
    call.fn = "_extract_entities_regex" =>
        LET text == call.query
            matching == MoneyPatternsMatching(text)
        IN  matching # {} =>
                \E p \in matching :
                    /\ \A q \in matching : p <= q
                    /\ \E i \in 1..Len(text) :
                          /\ MoneyMatch(text, p, i)
                          /\ \A j \in 1..(i - 1) : ~MoneyMatch(text, p, j)
                          /\ "amount" \in DOMAIN call.ret
                          /\ call.ret.amount = text[i]

\* C18 witness: the fourth pattern matches the text before the place where
\* the first pattern matches, and amount is the digits of the first pattern
C18_Witness ==
    /\ call.fn = "_extract_entities_regex"
    /\ \E i, j \in 1..Len(call.query) :
          /\ i < j
          /\ MoneyMatch(call.query, 4, i)
          /\ MoneyMatch(call.query, 1, j)
          /\ call.query[i] # call.query[j]
          /\ call.ret.amount = call.query[j]

\* C19: the three example texts give the entities of the examples.
C19_ExampleEntities ==
    call.fn = "_extract_entities_regex" =>
        /\ call.query = Q_recharge => call.ret = [amount |-> "500"]
        /\ call.query = Q_down =>
              call.ret = [service |-> "internet", issue |-> "nahi chal raha"]
        /\ call.query = Q_slow =>
              /\ "amount" \in DOMAIN call.ret /\ call.ret.amount = "500"
              /\ "service" \in DOMAIN call.ret /\ call.ret.service = "internet"

\* C19 witness: the entities of "internet nahi chal raha" have been extracted
C19_Witness ==
    /\ call.fn = "_extract_entities_regex"
    /\ call.query = Q_down
    /\ DOMAIN call.ret = {"service", "issue"}

\* the two texts differ in letter case only
CaseVariants(a, b) ==
    /\ Len(a) = Len(b)
    /\ \A i \in 1..Len(a) : Lower(a[i]) = Lower(b[i])

\* C20: a text that differs from the text of the call in letter case only
\* gives the same entities, key by key and value by value.
C20_CaseInsensitive ==
    call.fn = "_extract_entities_regex" =>
        \A other \in EntityTexts :
            CaseVariants(call.query, other) => extract_entities_regex(other) = call.ret

\* C24: every classification that classify_query returns has a priority
\* field, and its value is HIGH, MEDIUM or LOW.
C24_PriorityField ==
    (call.fn = "classify_query" /\ call.ret.raised = "no") =>
        /\ "priority" \in DOMAIN call.ret.value
        /\ call.ret.value["priority"] \in {"HIGH", "MEDIUM", "LOW"}

\* the row that this step appended to a record table, when it appended one
\* and left the other record table as it was
RecordInserted ==
    \/ Appended(queries, queries') /\ grievances' = grievances
    \/ Appended(grievances, grievances') /\ queries' = queries

InsertedRecord == IF queries' # queries THEN Last(queries') ELSE Last(grievances')

\* C26: a create_record call whose INSERT is executed appends one row to one
\* record table, with type the classification's type_name, department the
\* classification's department, description its original_query, entities the
\* JSON of its entities, and the conversation_id, user_id and phone passed
\* in; the conversations table and the other record table stay as they were.
C26_RecordRow ==
    [][(StoreStep("create_record") /\ op'.statement = "executed") =>
         LET c == op'.classification_result
             row == InsertedRecord
         IN  /\ RecordInserted
             /\ conversations' = conversations
             /\ row.type = c.type_name
             /\ row.department = c.department
             /\ row.description = c.original_query
             /\ row.extracted_entities = JsonDumps(c.entities)
             /\ row.conversation_id = op'.conversation_id
             /\ row.user_id = op'.user_id
             /\ row.phone = op'.phone
             /\ row.id = op'.ret]_vars

\* C26 witness: create_record has stored, for user 2, a grievance of the
\* department Network Operations whose routing is technical_support
C26_Witness ==
    /\ op.name = "create_record" /\ op.statement = "executed"
    /\ op.classification_result.routing = "technical_support"
    /\ op.classification_result.department = "Network Operations"
    /\ op.user_id = 2
    /\ grievances # << >>
    /\ Last(grievances).id = op.ret
    /\ Last(grievances).department = "Network Operations"
    /\ Last(grievances).user_id = 2
    /\ Last(grievances).phone = PhoneOf(2)
    /\ Last(grievances).description = Q_down

\* this step is a turn that the application answers: get_ai_response ran
AnsweredTurn ==
    /\ "total_queries" \in DOMAIN session
    /\ session'.total_queries = session.total_queries + 1

\* C21: every answered turn appends exactly one row to conversations, and
\* every step leaves the rows already in conversations as they are.
C21_OneConversationPerTurn ==
    [][/\ AnsweredTurn => Appended(conversations, conversations')
       /\ Len(conversations') >= Len(conversations)
       /\ SubSeq(conversations', 1, Len(conversations)) = conversations]_vars

\* the session holds a classifier whose initialization failed
Unavailable ==
    /\ "ticket_classifier" \in DOMAIN session
    /\ session.ticket_classifier = NoClassifier
    /\ ~session.classifier_enabled

\* the conversation history got one more entry, which holds a response
Responded ==
    /\ Len(session'.conversation_history) = Len(session.conversation_history) + 1
    /\ Last(session'.conversation_history).response = Response

\* C22: a failed initialization leaves the session with the classifier
\* marked unavailable; while it is unavailable no step calls the
\* TicketClassifier (neither its constructor nor classify_query) and it stays
\* unavailable; and every answered turn gets a response, whether the
\* classifier is unavailable, raised an error or returned.
C22_ClassifierFailureContained ==
    [][/\ (call' # call /\ call'.fn = "__init__" /\ call'.raised) => Unavailable'
       /\ Unavailable => (call' = call /\ Unavailable')
       /\ AnsweredTurn => Responded]_vars

\* C22 witness: the initialization failed and two turns of the session have
\* been answered since, with no call of classify_query
C22_Witness ==
    /\ Unavailable
    /\ call = [fn |-> "__init__", raised |-> TRUE]
    /\ session.total_queries = 2
    /\ Len(session.conversation_history) = 2
    /\ session.conversation_history[2].response = Response

\* the conversations row of that id
ConversationOf(conversation_id) ==
    CHOOSE c \in Range(conversations) : c.conversation_id = conversation_id

\* C25: every query or grievance record has as its description the
\* query_text of its conversation.
C25_RecordOfSameTurn ==
    \A table \in {queries, grievances} : \A i \in 1..Len(table) :
        ConversationExists(table[i].conversation_id) =>
            table[i].description = ConversationOf(table[i].conversation_id).query_text

\* C27: any two entries into the body of generate_summary are at least
\* min_interval (5 seconds) apart, whichever threads made the calls.
C27_EntriesSpaced ==
    \A i \in 1..Len(entered) : \A j \in (i + 1)..Len(entered) :
        entered[j].at - entered[i].at >= min_interval

\* C28: every call of model.generate_content was made by an invocation that
\* passed the rate limiter: it has its own entry in the limiter's record.
C28_ModelCallsLimited ==
    \A k \in 1..Len(gemini) :
        /\ gemini[k].entry \in 1..Len(entered)
        /\ entered[gemini[k].entry].thread = gemini[k].thread

\* a generate_summary call of thread t has ended
Summarized(t) ==
    /\ summarizing[t].pc = "idle"
    /\ "fn" \in DOMAIN summarizing[t]
    /\ summarizing[t].fn = "generate_summary"

\* C29: every generate_summary call returns a result and raises nothing; for
\* an empty list the result has complaint_count 0 and the model was not
\* called; a result with error = true has complaint_count equal to the number
\* of rows; and high_priority_count <= complaint_count in every result.
C29_SummaryAlwaysReturned ==
    \A t \in Threads : Summarized(t) =>
        LET r == summarizing[t].ret
            rows == summarizing[t].complaints
        IN  /\ r.raised = "no"
            /\ rows = << >> => (r.value.complaint_count = 0 /\ ~r.called)
            /\ Get(r.value, "error", FALSE) => r.value.complaint_count = Len(rows)
            /\ r.value.high_priority_count <= r.value.complaint_count

\* C23: every row that the dashboard fetched with get_grievances has the ten
\* positions id, type, department, priority, description, status, created
\* at, entities, customer name, phone, and generate_summary takes from it a
\* priority that is HIGH, MEDIUM or LOW, the row's description, its status,
\* its date, its entities and its customer name.
C23_RowLayout ==
    ("grievances" \in DOMAIN page) =>
        \A i \in 1..Len(page.grievances) :
            LET row == page.grievances[i]
                comp == RowTuple(row)
                e == complaint_entry(comp)
            IN  /\ SameCell(e.id, IntCell(row.id))
                /\ SameCell(e.type, StrCell(row.type))
                /\ SameCell(Col(comp, 2), StrCell(row.department))
                /\ e.priority.form = "plain" /\ e.priority.v \in {"HIGH", "MEDIUM", "LOW"}
                /\ SameCell(e.description, TextCell(row.description))
                /\ SameCell(e.status, StrCell(row.status))
                /\ SameCell(e.date, DateOf(DateTimeCell(row.created_at)))
                /\ RowError(comp) = "no"
                /\ SameCell(e.entities, DictCell(row.extracted_entities.json))
                /\ SameCell(e.customer, StrCell(row.name))
                /\ Len(comp) = 10
                /\ SameCell(Col(comp, 9), StrCell(row.phone))

\* C30: a summary that the dashboard displays was generated in a run with
\* the filter selection (department, dates, status) and the rows of the page
\* as it is displayed.
C30_SummaryOfThisSelection ==
    ("displayed" \in DOMAIN page /\ page.displayed # << >>) =>
        LET key == cache_key(page.selected_dept, page.start_date, page.end_date,
                             page.grievances)
        IN  /\ page.summary_inputs[key].status_filter = page.status_filter
            /\ page.summary_inputs[key].grievances = page.grievances
====
